---- MODULE Spec2Model ----
(***************************************************************************)
(* Model of MindGen's iteration/convergence control loop:                  *)
(* WorkflowManager.run_workflow and the three phase agents it drives       *)
(* (TeachingPlanAgent, CrossAnalysisAgent, ImprovementAgent), with         *)
(* QualityMetrics as pure operators.                                       *)
(*                                                                         *)
(* Numbers.  Python floats are modelled as exact rationals on fixed grids: *)
(*   overall_score          tenths            (7.5  -> 75)                 *)
(*   quality metric values  thousandths       (0.8  -> 800)                *)
(*   weights                hundredths        (0.25 -> 25)                 *)
(*   quality scores         1/6000            (0.8  -> 4800, 0.01 -> 60)   *)
(* The 1/6000 grid makes the weighted score and the mean over 1, 2 or 3    *)
(* analysts exact.  time.time() stamps and durations are left out.         *)
(***************************************************************************)
EXTENDS Integers, Sequences, FiniteSets, TLC

(* ------------------------------ bounds --------------------------------- *)
\* largest configured system.max_iterations tried
MaxIterations == 3
\* backend and event-sink outcomes per behaviour that differ from the nominal one
\* (the call succeeds, the analyst gives the plain answer, the emit succeeds)
MaxDeviations == 2
\* run_workflow calls made in a behaviour of the concurrent specification
MaxCalls == 2
\* longest score history handed to detect_convergence on its own
MaxHistory == 4
\* reset_workflow, get_status and get_debug_info calls made in a behaviour
MaxOps == 1
\* largest max_retries given to retry_on_error, and largest configured
\* retry_attempts of an agent
MaxRetries == 3
\* a metric handed to calculate_quality_score on its own is one of the values
\* 0, 0.25, ..., MetricLevels * 0.25
MetricLevels == 2

(* --------------------------- program constants ------------------------- *)
\* workflow_manager.py:35  quality_threshold default 0.8
quality_threshold == 4800
\* quality_metrics.py:56   detect_convergence threshold default 0.01
convergence_threshold == 60
\* cross_analysis_agent.py:156  default overall score 7.5
DefaultOverall == 75
\* app.py:126  accepted range of max_rounds
MinRounds == 1
MaxRounds == 10

Backends == <<"qwen", "deepseek", "personal_chatgpt">>
BackendSet == {Backends[i] : i \in 1..Len(Backends)}
Components == {"teaching_plan_agent", "cross_analysis_agent",
               "improvement_agent", "knowledge_memory_agent"}
ThreadSeq == <<"t1", "t2">>
Threads == {ThreadSeq[i] : i \in 1..Len(ThreadSeq)}
NoThread == "none"
EmptyMap == [x \in {} |-> x]

(* ------------------------- QualityMetrics ------------------------------ *)
weights == [curriculum_alignment |-> 25, engagement_factor |-> 20,
            assessment_quality |-> 20, innovation_score |-> 15,
            practicality |-> 20]
\* iteration order of self.weights (dict insertion order)
WeightKeys == <<"curriculum_alignment", "engagement_factor", "assessment_quality",
                "innovation_score", "practicality">>

RECURSIVE WeightedSum(_, _)
WeightedSum(metrics, i) ==
    IF i = 0 THEN 0
    ELSE WeightedSum(metrics, i - 1) +
         (IF WeightKeys[i] \in DOMAIN metrics
          THEN metrics[WeightKeys[i]] * weights[WeightKeys[i]] ELSE 0)

RECURSIVE TotalWeight(_, _)
TotalWeight(metrics, i) ==
    IF i = 0 THEN 0
    ELSE TotalWeight(metrics, i - 1) +
         (IF WeightKeys[i] \in DOMAIN metrics THEN weights[WeightKeys[i]] ELSE 0)

\* mutant: the weighted sum is divided by the sum of all five weights
_calculate_weighted_score_AllWeights(metrics) ==
    LET ws == WeightedSum(metrics, Len(WeightKeys))
        tw == TotalWeight(metrics, Len(WeightKeys))
    IN IF tw > 0 THEN (6 * ws) \div 100 ELSE 0

\* weighted_sum / total_weight, in 1/6000 (metrics are thousandths)
_calculate_weighted_score(metrics) ==
    LET ws == WeightedSum(metrics, Len(WeightKeys))
        tw == TotalWeight(metrics, Len(WeightKeys))
    IN IF tw > 0 THEN (6 * ws) \div tw ELSE 0

RECURSIVE SumSeq(_)
SumSeq(s) == IF s = <<>> THEN 0 ELSE Head(s) + SumSeq(Tail(s))

\* the list `scores`: one weighted score per successful report, in report order
RECURSIVE ScoresOf(_, _)
ScoresOf(reports, i) ==
    IF i = 0 THEN <<>>
    ELSE LET r == reports[Backends[i]]
         IN IF r.status = "success"
            THEN Append(ScoresOf(reports, i - 1),
                        _calculate_weighted_score(
                            IF "quality_metrics" \in DOMAIN r THEN r.quality_metrics
                            ELSE EmptyMap))
            ELSE ScoresOf(reports, i - 1)

calculate_quality_score(reports) ==
    LET scores == ScoresOf(reports, Len(Backends))
    IN IF scores # <<>> THEN SumSeq(scores) \div Len(scores) ELSE 0

Abs(x) == IF x < 0 THEN -x ELSE x

\* mutant: only the last improvement is compared with the threshold
detect_convergence_OnlyLast(quality_history, threshold) ==
    IF Len(quality_history) < 3 THEN FALSE
    ELSE LET n == Len(quality_history)
             recent_improvements ==
                 [j \in 1..(n - 1) |-> Abs(quality_history[j + 1] - quality_history[j])]
         IN recent_improvements[n - 1] < threshold

\* mutant: an improvement equal to the threshold counts as converged
detect_convergence_NonStrict(quality_history, threshold) ==
    IF Len(quality_history) < 3 THEN FALSE
    ELSE LET n == Len(quality_history)
             recent_improvements ==
                 [j \in 1..(n - 1) |-> Abs(quality_history[j + 1] - quality_history[j])]
         IN \A j \in (n - 2)..(n - 1) : recent_improvements[j] <= threshold

\* recent_improvements[j] = |h[j+1] - h[j]|; all of the last two must be < threshold
detect_convergence(quality_history, threshold) ==
    IF Len(quality_history) < 3 THEN FALSE
    ELSE LET n == Len(quality_history)
             recent_improvements ==
                 [j \in 1..(n - 1) |-> Abs(quality_history[j + 1] - quality_history[j])]
         IN \A j \in (n - 2)..(n - 1) : recent_improvements[j] < threshold

(* ------------------------------ state ---------------------------------- *)
VARIABLES
    max_iterations,  \* self.max_iterations, read from the configuration at construction
    status,          \* self.status
    debug_data,      \* self.debug_data: component -> list of stored payloads
    applied,         \* heap: the mutable 'improvement_applied' key of each plan dict
    lock,            \* self.lock: the thread holding it, or NoThread
    events,          \* per thread: what its socketio.emit calls have published, in order
    pc,              \* per thread: position in run_workflow
    loc,             \* per thread: locals of the run_workflow call
    calls,           \* per thread: number of run_workflow calls made
    deviations,      \* non-nominal backend / sink outcomes so far
    qm,              \* a direct call of QualityMetrics.detect_convergence
    snap,            \* per thread: what its last get_status / get_debug_info returned
    old_lists,       \* heap: per component, the debug lists reset_workflow replaced
    llms,            \* LangChainLLMService.llms: per registry name, whether an LLM is there
    eh,              \* a direct call of an ErrorHandler method
    svc              \* a direct call of LangChainLLMService.get_agent_llm

vars == <<max_iterations, status, debug_data, applied, lock, events, pc, loc,
          calls, deviations, qm, snap, old_lists, llms, eh, svc>>

\* the state no step of run_workflow touches
outside == <<qm, snap, old_lists, llms, eh, svc>>

(* A plan dict is created once (by generate_plans or improve_plans) and is  *)
(* afterwards shared by reference between the run's locals, status["plans"] *)
(* and the debug entries.  Its only key written after creation is           *)
(* 'improvement_applied', kept in `applied` under the dict's identity       *)
(* (run, model, born, status, message); `born` is the iteration that        *)
(* created the dict, and stands for the content of a successful plan.       *)
SuccessPlan(run, model, born) ==
    [status |-> "success", model |-> model, run |-> run, born |-> born]
ErrorPlan(run, model, born, message) ==
    [status |-> "error", model |-> model, run |-> run, born |-> born,
     message |-> message]

\* a plans dict as a reader sees it now: each entry with its current flag
Observe(plans) ==
    [m \in DOMAIN plans |->
        [plan |-> plans[m], improvement_applied |-> applied[plans[m]]]]

\* Python's None where a dict is expected
NoneValue == [status |-> "None"]

InitialStatus(maxit) ==
    [current_iteration |-> 0, max_iterations |-> maxit, is_running |-> FALSE,
     current_quality_score |-> 0, plans |-> EmptyMap,
     analysis_reports |-> EmptyMap, final_plan |-> NoneValue, error |-> "None"]

InitialLocals ==
    [run |-> <<"none", 0>>, max_rounds |-> 0, iteration |-> 0, idx |-> 0,
     partial |-> EmptyMap, initial_plans |-> EmptyMap, current_plans |-> EmptyMap,
     analysis_reports |-> EmptyMap, improved_plans |-> EmptyMap,
     quality_history |-> <<>>, quality_score |-> 0, final_plan |-> NoneValue,
     exc |-> "None", herr_from |-> "None", error_message |-> "None",
     ret |-> NoneValue,
     \* what the last backend call of a phase loop and its emit did
     outcome |-> "None"]

\* nothing was handed out to the thread
NoSnap == [kind |-> "none"]

\* no direct call of detect_convergence is made
NoCall == [quality_history |-> <<>>, threshold |-> convergence_threshold,
           returned |-> FALSE, ret |-> FALSE]

\* the names _initialize_llms enters into the registry (llm_service.py:110-171)
RegistryNames == BackendSet \cup {"qwen_fallback"}
FullRegistry == [n \in RegistryNames |-> TRUE]

\* llm_service.py:366-386 with the defaults of lines 371-372: the agents, and
\* with them the manager, are constructed only if this finds an LLM
AgentLLMSequence == <<"personal_chatgpt", "qwen_fallback", "deepseek">>
get_agent_llm(registry) ==
    IF \E i \in 1..Len(AgentLLMSequence) : registry[AgentLLMSequence[i]]
    THEN AgentLLMSequence[CHOOSE i \in 1..Len(AgentLLMSequence) :
                             /\ registry[AgentLLMSequence[i]]
                             /\ \A j \in 1..(i - 1) : ~registry[AgentLLMSequence[j]]]
    ELSE "raise"
Registries == {r \in [RegistryNames -> BOOLEAN] : get_agent_llm(r) # "raise"}

\* no direct call of an ErrorHandler method is made
NoHandlerCall == [kind |-> "none"]

\* no direct call of get_agent_llm is made
NoServiceCall == [kind |-> "none", returned |-> FALSE]

InitService(maxits, registries) ==
    /\ llms \in registries
    /\ max_iterations \in maxits
    /\ status = InitialStatus(max_iterations)
    /\ debug_data = [c \in Components |-> <<>>]
    /\ applied = EmptyMap
    /\ lock = NoThread
    /\ events = [t \in Threads |-> <<>>]
    /\ pc = [t \in Threads |-> "idle"]
    /\ loc = [t \in Threads |-> InitialLocals]
    /\ calls = [t \in Threads |-> 0]
    /\ deviations = 0
    /\ snap = [t \in Threads |-> NoSnap]
    /\ old_lists = [c \in Components |-> <<>>]

\* every LLM of the registry was initialized
InitManager(maxits) ==
    InitService(maxits, {FullRegistry}) /\ eh = NoHandlerCall /\ svc = NoServiceCall

InitWith(maxits) == InitManager(maxits) /\ qm = NoCall

Init == InitWith(1..MaxIterations)

(* --------------------------- helpers ----------------------------------- *)
SetLoc(t, r) == loc' = [loc EXCEPT ![t] = r]
Goto(t, p) == pc' = [pc EXCEPT ![t] = p]
Published(t, name) ==
    [events EXCEPT ![t] = Append(@, [run |-> loc[t].run, name |-> name,
                                     iteration |-> loc[t].iteration])]
Publish(t, name) == events' = Published(t, name)

\* a non-nominal outcome is taken only while the budget lasts
Budget(isFault) ==
    /\ isFault => deviations < MaxDeviations
    /\ deviations' = IF isFault THEN deviations + 1 ELSE deviations

\* `with self.lock:` -- the critical section each waiting position enters
CriticalSection(p) ==
    CASE p = "rw_lock" -> "rw_cs"
      [] p = "upd_iter0_lock" -> "upd_iter0_cs"
      [] p = "upd_plans_lock" -> "upd_plans_cs"
      [] p = "upd_iter_lock" -> "upd_iter_cs"
      [] p = "upd_reports_lock" -> "upd_reports_cs"
      [] p = "upd_score_lock" -> "upd_score_cs"
      [] p = "upd_improved_lock" -> "upd_improved_cs"
      [] p = "upd_final_lock" -> "upd_final_cs"
      [] p = "herr_lock" -> "herr_cs"
      [] p = "fin_lock" -> "fin_cs"
      [] p = "reset_lock" -> "reset_cs"
      [] p = "gs_lock" -> "gs_cs"
LockWaits == {"rw_lock", "upd_iter0_lock", "upd_plans_lock", "upd_iter_lock",
              "upd_reports_lock", "upd_score_lock", "upd_improved_lock",
              "upd_final_lock", "herr_lock", "fin_lock", "reset_lock", "gs_lock"}

(* ------------------------ run_workflow --------------------------------- *)
\* a caller (app.start_workflow's background task) enters run_workflow
Call(t, env) ==
    /\ pc[t] \in {"idle", "returned"}
    /\ SumSeq([i \in 1..Len(ThreadSeq) |-> calls[ThreadSeq[i]]]) < env.maxcalls
    /\ \E mr \in env.rounds \cap (MinRounds..MaxRounds) :
         SetLoc(t, [InitialLocals EXCEPT !.run = <<t, calls[t] + 1>>,
                                         !.max_rounds = mr])
    /\ calls' = [calls EXCEPT ![t] = @ + 1]
    /\ Goto(t, "rw_lock")
    /\ UNCHANGED <<outside, max_iterations, status, debug_data, applied, lock, events, deviations>>

\* Lock.acquire at the head of every `with self.lock:` block
Acquire(t) ==
    /\ pc[t] \in LockWaits
    /\ lock = NoThread
    /\ lock' = t
    /\ Goto(t, CriticalSection(pc[t]))
    /\ UNCHANGED <<outside, max_iterations, status, debug_data, applied, events, loc,
                   calls, deviations>>

Rejection == [status |-> "error", message |-> "Workflow already running"]

\* mutant: the rejected call leaves through the finally block, as it would if
\* the first `with self.lock:` stood inside the try statement
RunWorkflowEnter_RejectInsideTry(t) ==
    /\ pc[t] = "rw_cs"
    /\ lock' = NoThread
    /\ IF status.is_running
       THEN /\ SetLoc(t, [loc[t] EXCEPT !.ret = Rejection])
            /\ Goto(t, "fin_lock")
            /\ UNCHANGED status
       ELSE /\ status' = [status EXCEPT !.current_iteration = 0,
                                        !.is_running = TRUE,
                                        !.current_quality_score = 0,
                                        !.plans = EmptyMap,
                                        !.analysis_reports = EmptyMap,
                                        !.final_plan = NoneValue,
                                        !.error = "None"]
            /\ Goto(t, "emit_workflow_start")
            /\ UNCHANGED loc
    /\ UNCHANGED <<outside, max_iterations, debug_data, applied, events, calls, deviations>>

\* mutant: the rejected call publishes workflow_error before it returns
RunWorkflowEnter_RejectionEmits(t) ==
    /\ pc[t] = "rw_cs"
    /\ lock' = NoThread
    /\ IF status.is_running
       THEN /\ SetLoc(t, [loc[t] EXCEPT !.ret = Rejection])
            /\ Goto(t, "returned")
            /\ Publish(t, "workflow_error")
            /\ UNCHANGED status
       ELSE /\ status' = [status EXCEPT !.current_iteration = 0,
                                        !.is_running = TRUE,
                                        !.current_quality_score = 0,
                                        !.plans = EmptyMap,
                                        !.analysis_reports = EmptyMap,
                                        !.final_plan = NoneValue,
                                        !.error = "None"]
            /\ Goto(t, "emit_workflow_start")
            /\ UNCHANGED <<loc, events>>
    /\ UNCHANGED <<outside, max_iterations, debug_data, applied, calls, deviations>>

\* workflow_manager.py:61-74, the lock released on leaving the block
RunWorkflowEnter(t) ==
    /\ pc[t] = "rw_cs"
    /\ lock' = NoThread
    /\ IF status.is_running
       THEN /\ SetLoc(t, [loc[t] EXCEPT !.ret = Rejection])
            /\ Goto(t, "returned")
            /\ UNCHANGED status
       ELSE /\ status' = [status EXCEPT !.current_iteration = 0,
                                        !.is_running = TRUE,
                                        !.current_quality_score = 0,
                                        !.plans = EmptyMap,
                                        !.analysis_reports = EmptyMap,
                                        !.final_plan = NoneValue,
                                        !.error = "None"]
            /\ Goto(t, "emit_workflow_start")
            /\ UNCHANGED loc
    /\ UNCHANGED <<outside, max_iterations, debug_data, applied, events, calls, deviations>>

\* the socketio.emit calls made by run_workflow inside its try block
EmitName(p) ==
    CASE p = "emit_workflow_start" -> "workflow_start"
      [] p = "emit_iteration_start0" -> "iteration_start"
      [] p = "emit_iteration_start" -> "iteration_start"
      [] p = "emit_cross_analysis" -> "status_update"
      [] p = "emit_quality_update" -> "quality_update"
      [] p = "emit_threshold_met" -> "quality_threshold_met"
      [] p = "emit_convergence" -> "convergence_detected"
      [] p = "emit_improving" -> "status_update"
      [] p = "emit_iteration_complete" -> "iteration_complete"
      [] p = "emit_final_status" -> "status_update"
      [] p = "emit_workflow_complete" -> "workflow_complete"
EmitNext(p) ==
    CASE p = "emit_workflow_start" -> "upd_iter0_lock"
      [] p = "emit_iteration_start0" -> "generate"
      [] p = "emit_iteration_start" -> "emit_cross_analysis"
      [] p = "emit_cross_analysis" -> "analyze"
      [] p = "emit_quality_update" -> "stop_check"
      [] p = "emit_threshold_met" -> "emit_final_status"
      [] p = "emit_convergence" -> "emit_final_status"
      [] p = "emit_improving" -> "improve"
      [] p = "emit_iteration_complete" -> "loop_head"
      [] p = "emit_final_status" -> "final"
      [] p = "emit_workflow_complete" -> "return_success"
EmitPCs == {"emit_workflow_start", "emit_iteration_start0", "emit_iteration_start",
            "emit_cross_analysis", "emit_quality_update", "emit_threshold_met",
            "emit_convergence", "emit_improving", "emit_iteration_complete",
            "emit_final_status", "emit_workflow_complete"}
\* positions from which the next step starts a phase loop over the backends
PhaseStarts == {"generate", "analyze", "improve"}

\* mutant: a failing emit of quality_update is ignored
Emit_QualityUpdateBestEffort(t, env) ==
    /\ pc[t] \in EmitPCs
    /\ \E ok \in IF pc[t] \in env.failing_emits THEN BOOLEAN ELSE {TRUE} :
         /\ Budget(~ok)
         /\ IF ok
            THEN /\ Publish(t, EmitName(pc[t]))
                 /\ Goto(t, EmitNext(pc[t]))
                 /\ SetLoc(t, [loc[t] EXCEPT
                        !.idx = IF EmitNext(pc[t]) \in PhaseStarts THEN 1 ELSE @,
                        !.partial = IF EmitNext(pc[t]) \in PhaseStarts
                                    THEN EmptyMap ELSE @,
                        !.iteration = IF pc[t] = "emit_iteration_complete"
                                      THEN @ + 1 ELSE @])
            ELSE IF pc[t] = "emit_quality_update"
                 THEN /\ Goto(t, EmitNext(pc[t]))
                      /\ UNCHANGED <<events, loc>>
                 ELSE /\ Goto(t, "except")
                      /\ SetLoc(t, [loc[t] EXCEPT !.exc = "emit failed"])
                      /\ UNCHANGED events
    /\ UNCHANGED <<outside, max_iterations, status, debug_data, applied, lock, calls>>

Emit(t, env) ==
    /\ pc[t] \in EmitPCs
    /\ \E ok \in IF pc[t] \in env.failing_emits THEN BOOLEAN ELSE {TRUE} :
         /\ Budget(~ok)
         /\ IF ok
            THEN /\ Publish(t, EmitName(pc[t]))
                 /\ Goto(t, EmitNext(pc[t]))
                 /\ SetLoc(t, [loc[t] EXCEPT
                        !.idx = IF EmitNext(pc[t]) \in PhaseStarts THEN 1 ELSE @,
                        !.partial = IF EmitNext(pc[t]) \in PhaseStarts
                                    THEN EmptyMap ELSE @,
                        \* the for statement takes the next value of range()
                        !.iteration = IF pc[t] = "emit_iteration_complete"
                                      THEN @ + 1 ELSE @])
            ELSE /\ Goto(t, "except")
                 /\ SetLoc(t, [loc[t] EXCEPT !.exc = "emit failed"])
                 /\ UNCHANGED events
    /\ UNCHANGED <<outside, max_iterations, status, debug_data, applied, lock, calls>>

\* mutant: the lock taken for the write of line 85 is kept afterwards
UpdateStatus_KeepsLock(t) ==
    /\ pc[t] \in {"upd_iter0_cs", "upd_plans_cs", "upd_iter_cs", "upd_reports_cs",
                  "upd_score_cs", "upd_improved_cs", "upd_final_cs"}
    /\ lock' = IF pc[t] = "upd_iter0_cs" THEN lock ELSE NoThread
    /\ status' =
         CASE pc[t] = "upd_iter0_cs" -> [status EXCEPT !.current_iteration = 0]
           [] pc[t] = "upd_plans_cs" -> [status EXCEPT !.plans = loc[t].initial_plans]
           [] pc[t] = "upd_iter_cs" ->
                [status EXCEPT !.current_iteration = loc[t].iteration]
           [] pc[t] = "upd_reports_cs" ->
                [status EXCEPT !.analysis_reports = loc[t].analysis_reports]
           [] pc[t] = "upd_score_cs" ->
                [status EXCEPT !.current_quality_score = loc[t].quality_score]
           [] pc[t] = "upd_improved_cs" ->
                [status EXCEPT !.plans = loc[t].improved_plans]
           [] pc[t] = "upd_final_cs" -> [status EXCEPT !.final_plan = loc[t].final_plan]
    /\ Goto(t, CASE pc[t] = "upd_iter0_cs" -> "emit_iteration_start0"
                 [] pc[t] = "upd_plans_cs" -> "debug_plans"
                 [] pc[t] = "upd_iter_cs" -> "emit_iteration_start"
                 [] pc[t] = "upd_reports_cs" -> "debug_reports"
                 [] pc[t] = "upd_score_cs" -> "emit_quality_update"
                 [] pc[t] = "upd_improved_cs" -> "debug_improved"
                 [] pc[t] = "upd_final_cs" -> "emit_workflow_complete")
    /\ UNCHANGED <<outside, max_iterations, debug_data, applied, events, loc, calls, deviations>>

\* _update_status(key, value): workflow_manager.py:219-220, each call site
UpdateStatus(t) ==
    /\ pc[t] \in {"upd_iter0_cs", "upd_plans_cs", "upd_iter_cs", "upd_reports_cs",
                  "upd_score_cs", "upd_improved_cs", "upd_final_cs"}
    /\ lock' = NoThread
    /\ status' =
         CASE pc[t] = "upd_iter0_cs" -> [status EXCEPT !.current_iteration = 0]
           [] pc[t] = "upd_plans_cs" -> [status EXCEPT !.plans = loc[t].initial_plans]
           [] pc[t] = "upd_iter_cs" ->
                [status EXCEPT !.current_iteration = loc[t].iteration]
           [] pc[t] = "upd_reports_cs" ->
                [status EXCEPT !.analysis_reports = loc[t].analysis_reports]
           [] pc[t] = "upd_score_cs" ->
                [status EXCEPT !.current_quality_score = loc[t].quality_score]
           [] pc[t] = "upd_improved_cs" ->
                [status EXCEPT !.plans = loc[t].improved_plans]
           [] pc[t] = "upd_final_cs" -> [status EXCEPT !.final_plan = loc[t].final_plan]
    /\ Goto(t, CASE pc[t] = "upd_iter0_cs" -> "emit_iteration_start0"
                 [] pc[t] = "upd_plans_cs" -> "debug_plans"
                 [] pc[t] = "upd_iter_cs" -> "emit_iteration_start"
                 [] pc[t] = "upd_reports_cs" -> "debug_reports"
                 [] pc[t] = "upd_score_cs" -> "emit_quality_update"
                 [] pc[t] = "upd_improved_cs" -> "debug_improved"
                 [] pc[t] = "upd_final_cs" -> "emit_workflow_complete")
    /\ UNCHANGED <<outside, max_iterations, debug_data, applied, events, loc, calls, deviations>>

\* _store_debug(component, data): workflow_manager.py:224-227, no lock taken
StoreDebug(t) ==
    /\ pc[t] \in {"debug_plans", "debug_reports", "debug_improved"}
    /\ LET component == CASE pc[t] = "debug_plans" -> "teaching_plan_agent"
                          [] pc[t] = "debug_reports" -> "cross_analysis_agent"
                          [] pc[t] = "debug_improved" -> "improvement_agent"
           data == CASE pc[t] = "debug_plans" -> loc[t].initial_plans
                     [] pc[t] = "debug_reports" -> loc[t].analysis_reports
                     [] pc[t] = "debug_improved" -> loc[t].improved_plans
       IN debug_data' = [debug_data EXCEPT ![component] = Append(@, [data |-> data])]
    /\ Goto(t, CASE pc[t] = "debug_plans" -> "gate"
                 [] pc[t] = "debug_reports" -> "score"
                 [] pc[t] = "debug_improved" -> "adopt")
    /\ UNCHANGED <<outside, max_iterations, status, applied, lock, events, loc, calls, deviations>>

(* ----------------------- TeachingPlanAgent ----------------------------- *)
(* ------------------------ LangChainLLMService -------------------------- *)
\* the exception of llm_service.py:277, 298 and 318
NotAvailable == "not_available"
\* generate_teaching_plan and improve_teaching_plan (llm_service.py:274-293,
\* 315-333): what a call addressed to model_name can do, `outcomes` being
\* what the chain of an LLM that is there can do
CallOutcomes(model_name, outcomes) ==
    IF llms[model_name] THEN outcomes ELSE {NotAvailable}

\* mutant: a failing backend call ends generate_plans with its exception, as
\* it would if the try statement stood around the for loop
GenerateOne_FailureAborts(t, env) ==
    /\ pc[t] = "generate"
    /\ \E o \in CallOutcomes(Backends[loc[t].idx], env.gen) :
         LET model_name == Backends[loc[t].idx]
             entry == IF o = "ok" THEN SuccessPlan(loc[t].run, model_name, 0)
                      ELSE ErrorPlan(loc[t].run, model_name, 0, o)
             plans == (model_name :> entry) @@ loc[t].partial
             last == loc[t].idx = Len(Backends)
         IN /\ Budget(o \notin {"ok", NotAvailable})
            /\ applied' = (entry :> "unset") @@ applied
            /\ events' = IF o = "ok"
                         THEN Published(t, "plan_generated")
                         ELSE events
            /\ SetLoc(t, [loc[t] EXCEPT
                   !.partial = IF o = "ok" THEN plans ELSE @,
                   !.outcome = o,
                   !.idx = @ + 1,
                   !.exc = IF o = "ok" THEN @ ELSE o,
                   !.initial_plans = IF last /\ o = "ok" THEN plans ELSE @])
            /\ Goto(t, IF o # "ok" THEN "except"
                       ELSE IF last THEN "upd_plans_lock" ELSE "generate")
    /\ UNCHANGED <<outside, max_iterations, status, debug_data, lock, calls>>

\* one pass of the loop of generate_plans (teaching_plan_agent.py:83-120);
\* the return after the last backend assigns initial_plans
GenerateOne(t, env) ==
    /\ pc[t] = "generate"
    /\ \E o \in CallOutcomes(Backends[loc[t].idx], env.gen) :
         LET model_name == Backends[loc[t].idx]
             entry == IF o = "ok" THEN SuccessPlan(loc[t].run, model_name, 0)
                      ELSE ErrorPlan(loc[t].run, model_name, 0, o)
             plans == (model_name :> entry) @@ loc[t].partial
             last == loc[t].idx = Len(Backends)
         IN /\ Budget(o \notin {"ok", NotAvailable})
            /\ applied' = (entry :> "unset") @@ applied
            /\ events' = IF o = "ok"
                         THEN Published(t, "plan_generated")
                         ELSE events
            /\ SetLoc(t, [loc[t] EXCEPT
                   !.partial = plans,
                   !.outcome = o,
                   !.idx = @ + 1,
                   !.initial_plans = IF last THEN plans ELSE @])
            /\ Goto(t, IF last THEN "upd_plans_lock" ELSE "generate")
    /\ UNCHANGED <<outside, max_iterations, status, debug_data, lock, calls>>

Successful(plans) == {m \in DOMAIN plans : plans[m].status = "success"}

\* mutant: one successful plan is enough
_has_critical_errors_OneIsEnough(plans) == Cardinality(Successful(plans)) < 1

\* workflow_manager.py:229-232
_has_critical_errors(plans) == Cardinality(Successful(plans)) < 2

\* workflow_manager.py:96-102
Gate(t) ==
    /\ pc[t] = "gate"
    /\ IF _has_critical_errors(loc[t].initial_plans)
       THEN /\ SetLoc(t, [loc[t] EXCEPT
                   !.error_message = "Failed to generate initial plans from all models",
                   !.herr_from = "gate"])
            /\ Goto(t, "herr_lock")
       ELSE /\ SetLoc(t, [loc[t] EXCEPT !.current_plans = loc[t].initial_plans,
                                        !.quality_history = <<>>,
                                        !.iteration = 1])
            /\ Goto(t, "loop_head")
    /\ UNCHANGED <<outside, max_iterations, status, debug_data, applied, lock, events, calls,
                   deviations>>

\* mutant: the range of the for statement holds one value more
LoopHead_OneMore(t) ==
    /\ pc[t] = "loop_head"
    /\ Goto(t, IF loc[t].iteration <= max_iterations + 1
               THEN "upd_iter_lock" ELSE "emit_final_status")
    /\ UNCHANGED <<outside, max_iterations, status, debug_data, applied, lock, events, loc,
                   calls, deviations>>

\* the for statement, workflow_manager.py:105
LoopHead(t) ==
    /\ pc[t] = "loop_head"
    /\ Goto(t, IF loc[t].iteration <= max_iterations
               THEN "upd_iter_lock" ELSE "emit_final_status")
    /\ UNCHANGED <<outside, max_iterations, status, debug_data, applied, lock, events, loc,
                   calls, deviations>>

(* ----------------------- CrossAnalysisAgent ---------------------------- *)
(* The agent's final answer is modelled by what _parse_analysis_result     *)
(* reads from it: which of the three keywords its lower-cased text holds,  *)
(* and the number matched by (\d+(?:\.\d+)?)/10, in tenths (-1: no match). *)
Answer(mentions, score) == [mentions |-> mentions, score |-> score]

\* cross_analysis_agent.py:122-169
_parse_analysis_result(final_answer, analyst_model) ==
    LET overall_score == IF final_answer.score >= 0 THEN final_answer.score
                         ELSE DefaultOverall
    IN [analyst |-> analyst_model,
        status |-> "success",
        strengths |-> IF "strengths" \in final_answer.mentions
                      THEN <<"Identified strengths in the plan">> ELSE <<>>,
        weaknesses |-> IF "weaknesses" \in final_answer.mentions
                       THEN <<"Areas for improvement identified">> ELSE <<>>,
        suggestions |-> IF "suggestions" \in final_answer.mentions
                        THEN <<"Specific improvement suggestions provided">> ELSE <<>>,
        overall_score |-> overall_score,
        quality_metrics |-> [curriculum_alignment |-> 800,
                             engagement_factor |-> 700,
                             assessment_quality |-> overall_score * 10,
                             innovation_score |-> 600,
                             practicality |-> 750]]

ErrorReport(analyst_model, message) ==
    [status |-> "error", message |-> message, analyst |-> analyst_model]

\* the plain answer: no "N/10" in it, suggestions and weaknesses named
NominalOutcome ==
    [kind |-> "answer", answer |-> Answer({"suggestions", "weaknesses"}, -1)]

\* one pass of the loop of analyze_plans (cross_analysis_agent.py:68-95);
\* an outcome is what agent_executor.invoke and the emit do in this pass:
\* an answer, or an exception of the executor ("raise") or of the emit
\* ("emit_error"), which line 89 turns into an error report
AnalyzeOne(t, env) ==
    /\ pc[t] = "analyze"
    /\ \E o \in env.an :
         LET analyst_model == Backends[loc[t].idx]
             report == IF o.kind = "answer"
                       THEN _parse_analysis_result(o.answer, analyst_model)
                       ELSE ErrorReport(analyst_model, o.kind)
             published == o.kind = "answer"
             reports == (analyst_model :> report) @@ loc[t].partial
             last == loc[t].idx = Len(Backends)
         IN /\ Budget(o # NominalOutcome)
            /\ events' = IF published
                         THEN Published(t, "analysis_complete")
                         ELSE events
            /\ SetLoc(t, [loc[t] EXCEPT
                   !.partial = reports,
                   !.outcome = IF o.kind = "answer" THEN "ok" ELSE o.kind,
                   !.idx = @ + 1,
                   !.analysis_reports = IF last THEN reports ELSE @])
            /\ Goto(t, IF last THEN "upd_reports_lock" ELSE "analyze")
    /\ UNCHANGED <<outside, max_iterations, status, debug_data, applied, lock, calls>>

\* mutant: the history keeps the last score only
Score_KeepsLastOnly(t) ==
    /\ pc[t] = "score"
    /\ LET quality_score == calculate_quality_score(loc[t].analysis_reports)
       IN SetLoc(t, [loc[t] EXCEPT !.quality_score = quality_score,
                                   !.quality_history = <<quality_score>>])
    /\ Goto(t, "upd_score_lock")
    /\ UNCHANGED <<outside, max_iterations, status, debug_data, applied, lock, events, calls,
                   deviations>>

\* workflow_manager.py:127-128
Score(t) ==
    /\ pc[t] = "score"
    /\ LET quality_score == calculate_quality_score(loc[t].analysis_reports)
       IN SetLoc(t, [loc[t] EXCEPT !.quality_score = quality_score,
                                   !.quality_history = Append(@, quality_score)])
    /\ Goto(t, "upd_score_lock")
    /\ UNCHANGED <<outside, max_iterations, status, debug_data, applied, lock, events, calls,
                   deviations>>

\* mutant: the threshold test does not leave the loop
StopCheck_NoThresholdBreak(t) ==
    /\ pc[t] = "stop_check"
    /\ Goto(t, IF detect_convergence(loc[t].quality_history, convergence_threshold)
               THEN "emit_convergence"
               ELSE "emit_improving")
    /\ UNCHANGED <<outside, max_iterations, status, debug_data, applied, lock, events, loc,
                   calls, deviations>>

\* mutant: the convergence test does not leave the loop
StopCheck_NoConvergenceBreak(t) ==
    /\ pc[t] = "stop_check"
    /\ Goto(t, IF loc[t].quality_score >= quality_threshold
               THEN "emit_threshold_met"
               ELSE "emit_improving")
    /\ UNCHANGED <<outside, max_iterations, status, debug_data, applied, lock, events, loc,
                   calls, deviations>>

\* mutant: the last iteration leaves the loop before its improvement phase
StopCheck_ExhaustionBreak(t) ==
    /\ pc[t] = "stop_check"
    /\ Goto(t, IF loc[t].quality_score >= quality_threshold
               THEN "emit_threshold_met"
               ELSE IF detect_convergence(loc[t].quality_history, convergence_threshold)
                    THEN "emit_convergence"
                    ELSE IF loc[t].iteration = max_iterations
                         THEN "emit_final_status"
                         ELSE "emit_improving")
    /\ UNCHANGED <<outside, max_iterations, status, debug_data, applied, lock, events, loc,
                   calls, deviations>>

\* the two stop tests, workflow_manager.py:138 and 148
StopCheck(t) ==
    /\ pc[t] = "stop_check"
    /\ Goto(t, IF loc[t].quality_score >= quality_threshold
               THEN "emit_threshold_met"
               ELSE IF detect_convergence(loc[t].quality_history, convergence_threshold)
                    THEN "emit_convergence"
                    ELSE "emit_improving")
    /\ UNCHANGED <<outside, max_iterations, status, debug_data, applied, lock, events, loc,
                   calls, deviations>>

(* ------------------------- ImprovementAgent ---------------------------- *)
RECURSIVE AddressAll(_)
AddressAll(ws) ==
    IF ws = <<>> THEN <<>> ELSE <<"Address: " \o Head(ws)>> \o AddressAll(Tail(ws))

\* improvement_agent.py:117-130: feedback_parts, before the join
RECURSIVE FeedbackParts(_, _, _)
FeedbackParts(model_name, analysis_reports, i) ==
    IF i = 0 THEN <<>>
    ELSE LET analyst_model == Backends[i]
             report == analysis_reports[analyst_model]
             before == FeedbackParts(model_name, analysis_reports, i - 1)
         IN IF report.status = "success" /\ analyst_model # model_name
            THEN before
                 \o (IF "suggestions" \in DOMAIN report THEN report.suggestions ELSE <<>>)
                 \o (IF "weaknesses" \in DOMAIN report
                     THEN AddressAll(report.weaknesses) ELSE <<>>)
            ELSE before

_extract_feedback_for_model(model_name, analysis_reports) ==
    FeedbackParts(model_name, analysis_reports, Len(Backends))

\* a revision is requested: improvement_agent.py:75
RevisionRequested(model_name, plans, analysis_reports) ==
    /\ _extract_feedback_for_model(model_name, analysis_reports) # <<>>
    /\ plans[model_name].status = "success"

\* one pass of the loop of improve_plans (improvement_agent.py:68-113)
ImproveOne(t, env) ==
    /\ pc[t] = "improve"
    /\ \E o \in env.imp \cup {NotAvailable} :
         LET model_name == Backends[loc[t].idx]
             plans == loc[t].current_plans
             revise == RevisionRequested(model_name, plans, loc[t].analysis_reports)
             revised == SuccessPlan(loc[t].run, model_name, loc[t].iteration)
             failed == ErrorPlan(loc[t].run, model_name, loc[t].iteration, o)
             entry == IF o # "ok" THEN failed
                      ELSE IF revise THEN revised ELSE plans[model_name]
             improved == (model_name :> entry) @@ loc[t].partial
             last == loc[t].idx = Len(Backends)
         IN /\ IF revise
               THEN o \in CallOutcomes(model_name, env.imp)
               ELSE o \in env.imp \ {"llm_error"}
            /\ Budget(o \notin {"ok", NotAvailable})
            \* the else branch writes the flag into the shared dict before the emit
            /\ applied' =
                 LET passed == IF revise THEN applied
                               ELSE [applied EXCEPT ![plans[model_name]] = "false"]
                 IN CASE o = "ok" /\ revise -> (revised :> "true") @@ passed
                      [] o = "ok" /\ ~revise -> passed
                      [] OTHER -> (failed :> "unset") @@ passed
            /\ events' = IF o = "ok"
                         THEN Published(t, "plan_improved")
                         ELSE events
            /\ SetLoc(t, [loc[t] EXCEPT
                   !.partial = improved,
                   !.outcome = o,
                   !.idx = @ + 1,
                   !.improved_plans = IF last THEN improved ELSE @])
            /\ Goto(t, IF last THEN "upd_improved_lock" ELSE "improve")
    /\ UNCHANGED <<outside, max_iterations, status, debug_data, lock, calls>>

\* mutant: the test of line 169 aborts the run as the test of line 96 does
Adopt_GateEveryRound(t) ==
    /\ pc[t] = "adopt"
    /\ IF Cardinality(Successful(loc[t].improved_plans)) < 2
       THEN /\ SetLoc(t, [loc[t] EXCEPT
                   !.error_message = "Failed to generate initial plans from all models",
                   !.herr_from = "gate"])
            /\ Goto(t, "herr_lock")
       ELSE /\ SetLoc(t, [loc[t] EXCEPT !.current_plans = loc[t].improved_plans])
            /\ Goto(t, "emit_iteration_complete")
    /\ UNCHANGED <<outside, max_iterations, status, debug_data, applied, lock, events, calls,
                   deviations>>

\* workflow_manager.py:169-173
Adopt(t) ==
    /\ pc[t] = "adopt"
    /\ SetLoc(t, [loc[t] EXCEPT !.current_plans = loc[t].improved_plans])
    /\ Goto(t, "emit_iteration_complete")
    /\ UNCHANGED <<outside, max_iterations, status, debug_data, applied, lock, events, calls,
                   deviations>>

(* -------------------------- finalization ------------------------------- *)
Max(a, b) == IF a >= b THEN a ELSE b

\* the inner loop of _generate_final_plan (workflow_manager.py:243-248):
\* the best 'quality_score' any successful report holds for this plan
RECURSIVE PlanScore(_, _, _)
PlanScore(model_name, analysis_reports, i) ==
    IF i = 0 THEN 0
    ELSE LET report == analysis_reports[Backends[i]]
             before == PlanScore(model_name, analysis_reports, i - 1)
         IN IF report.status = "success"
            THEN LET plan_analysis ==
                         IF "plan_analysis" \in DOMAIN report
                            /\ model_name \in DOMAIN report.plan_analysis
                         THEN report.plan_analysis[model_name] ELSE EmptyMap
                 IN Max(before, IF "quality_score" \in DOMAIN plan_analysis
                                THEN plan_analysis["quality_score"] ELSE 0)
            ELSE before

\* the outer loop (workflow_manager.py:237-252): <<best_plan, best_score>>
\* after the first i plans, in dict order
RECURSIVE BestPlan(_, _, _)
BestPlan(plans, analysis_reports, i) ==
    IF i = 0 THEN [best_plan |-> NoneValue, best_score |-> 0]
    ELSE LET before == BestPlan(plans, analysis_reports, i - 1)
             model_name == Backends[i]
             plan == plans[model_name]
             plan_score == PlanScore(model_name, analysis_reports, Len(Backends))
         IN IF plan.status = "success" /\ plan_score > before.best_score
            THEN [best_plan |-> plan, best_score |-> plan_score]
            ELSE before

\* workflow_manager.py:234-266
_generate_final_plan(plans, analysis_reports) ==
    LET best == BestPlan(plans, analysis_reports, Len(Backends))
    IN IF best.best_plan # NoneValue
       THEN [status |-> "success", content |-> best.best_plan,
             model |-> best.best_plan.model, quality_score |-> best.best_score]
       ELSE [status |-> "error",
             message |-> "No valid plans available for final generation"]

\* workflow_manager.py:189
Final(t) ==
    /\ pc[t] = "final"
    /\ SetLoc(t, [loc[t] EXCEPT !.final_plan =
           _generate_final_plan(loc[t].current_plans, loc[t].analysis_reports)])
    /\ Goto(t, "upd_final_lock")
    /\ UNCHANGED <<outside, max_iterations, status, debug_data, applied, lock, events, calls,
                   deviations>>

\* the return statement of the try block, workflow_manager.py:201-206
ReturnSuccess(t) ==
    /\ pc[t] = "return_success"
    /\ SetLoc(t, [loc[t] EXCEPT !.ret =
           [status |-> "success", final_plan |-> loc[t].final_plan,
            iterations_completed |-> status.current_iteration,
            final_quality_score |-> status.current_quality_score]])
    /\ Goto(t, "fin_lock")
    /\ UNCHANGED <<outside, max_iterations, status, debug_data, applied, lock, events, calls,
                   deviations>>

(* --------------------------- failure paths ----------------------------- *)
\* except Exception as e: workflow_manager.py:208-210
Except(t) ==
    /\ pc[t] = "except"
    /\ SetLoc(t, [loc[t] EXCEPT !.error_message = loc[t].exc,
                                !.herr_from = "except"])
    /\ Goto(t, "herr_lock")
    /\ UNCHANGED <<outside, max_iterations, status, debug_data, applied, lock, events, calls,
                   deviations>>

\* mutant: the error is recorded and the flag left to the finally block
HandleWorkflowError_LeavesFlag(t) ==
    /\ pc[t] = "herr_cs"
    /\ lock' = NoThread
    /\ status' = [status EXCEPT !.error = loc[t].error_message]
    /\ Goto(t, "emit_workflow_error")
    /\ UNCHANGED <<outside, max_iterations, debug_data, applied, events, loc, calls, deviations>>

\* _handle_workflow_error, the locked part: workflow_manager.py:270-272
HandleWorkflowError(t) ==
    /\ pc[t] = "herr_cs"
    /\ lock' = NoThread
    /\ status' = [status EXCEPT !.error = loc[t].error_message,
                                !.is_running = FALSE]
    /\ Goto(t, "emit_workflow_error")
    /\ UNCHANGED <<outside, max_iterations, debug_data, applied, events, loc, calls, deviations>>

\* _handle_workflow_error, the emit (workflow_manager.py:274-276), and the
\* return that follows it (line 99 or line 211).  A failing emit is caught by
\* line 208 when the gate made the call, and leaves run_workflow as an
\* exception when the except block made it.
EmitWorkflowError(t, env) ==
    /\ pc[t] = "emit_workflow_error"
    /\ \E ok \in IF pc[t] \in env.failing_emits THEN BOOLEAN ELSE {TRUE} :
         /\ Budget(~ok)
         /\ IF ok
            THEN /\ Publish(t, "workflow_error")
                 /\ SetLoc(t, [loc[t] EXCEPT !.ret =
                        [status |-> "error", message |-> loc[t].error_message]])
                 /\ Goto(t, "fin_lock")
            ELSE /\ UNCHANGED events
                 /\ IF loc[t].herr_from = "gate"
                    THEN /\ SetLoc(t, [loc[t] EXCEPT !.exc = "emit failed"])
                         /\ Goto(t, "except")
                    ELSE /\ SetLoc(t, [loc[t] EXCEPT !.ret = [status |-> "raised"]])
                         /\ Goto(t, "fin_lock")
    /\ UNCHANGED <<outside, max_iterations, status, debug_data, applied, lock, calls>>

\* mutant: the finally block leaves the flag as it is
Finally_KeepsFlag(t) ==
    /\ pc[t] = "fin_cs"
    /\ lock' = NoThread
    /\ Goto(t, "returned")
    /\ UNCHANGED <<outside, max_iterations, status, debug_data, applied, events, loc, calls,
                   deviations>>

\* finally: workflow_manager.py:213-215
Finally(t) ==
    /\ pc[t] = "fin_cs"
    /\ lock' = NoThread
    /\ status' = [status EXCEPT !.is_running = FALSE]
    /\ Goto(t, "returned")
    /\ UNCHANGED <<outside, max_iterations, debug_data, applied, events, loc, calls, deviations>>

(* ------------------------- specifications ------------------------------ *)
(* An environment bounds what the callers, the backends and the event sink *)
(* may do in a behaviour: the max_rounds values requested, the calls made  *)
(* in all, the outcomes of a generation, analysis and revision call,   *)
(* and the emit calls that may raise.                                      *)
GenOutcomes == {"ok", "llm_error", "emit_error"}
ImproveOutcomes == {"ok", "llm_error", "emit_error"}
AnalystOutcomes ==
    {NominalOutcome,
     [kind |-> "answer", answer |-> Answer({"strengths"}, 300)],
     [kind |-> "answer", answer |-> Answer({}, 50)],
     [kind |-> "raise", answer |-> Answer({}, -1)],
     [kind |-> "emit_error", answer |-> Answer({}, -1)]}
\* the max_rounds a request carries: run_workflow never reads the value, the
\* smallest one app.py accepts is below every configured max_iterations but 1
JobRounds == {MinRounds}

Step(t, env) ==
    \/ Call(t, env)
    \/ Acquire(t)
    \/ RunWorkflowEnter(t)
    \/ Emit(t, env)
    \/ UpdateStatus(t)
    \/ StoreDebug(t)
    \/ GenerateOne(t, env)
    \/ Gate(t)
    \/ LoopHead(t)
    \/ AnalyzeOne(t, env)
    \/ Score(t)
    \/ StopCheck(t)
    \/ ImproveOne(t, env)
    \/ Adopt(t)
    \/ Final(t)
    \/ ReturnSuccess(t)
    \/ Except(t)
    \/ HandleWorkflowError(t)
    \/ EmitWorkflowError(t, env)
    \/ Finally(t)

\* one run_workflow call, the full range of backend and sink behaviour
FullEnv ==
    [rounds |-> JobRounds, maxcalls |-> 1, gen |-> GenOutcomes,
     an |-> AnalystOutcomes, imp |-> ImproveOutcomes,
     failing_emits |-> EmitPCs \cup {"emit_workflow_error"}]

Next == Step("t1", FullEnv)

Spec == Init /\ [][Next]_vars

\* concurrent callers of run_workflow (one background task per request,
\* app.py:144), MaxCalls calls in all, over a narrow range of backend
\* behaviour and a single configured iteration
NarrowEnv ==
    [rounds |-> JobRounds, maxcalls |-> MaxCalls, gen |-> {"ok", "llm_error"},
     an |-> {NominalOutcome}, imp |-> {"ok"},
     failing_emits |-> {"emit_workflow_start", "emit_workflow_error"}]

InitConc == InitWith({1})

NextConc == \E t \in Threads : Step(t, NarrowEnv)

SpecConc == InitConc /\ [][NextConc]_vars

\* one run on every registry the manager can be constructed with, over a
\* narrow range of backend behaviour and a single configured iteration
LLMEnv ==
    [rounds |-> JobRounds, maxcalls |-> 1, gen |-> {"ok", "llm_error"},
     an |-> {NominalOutcome}, imp |-> {"ok", "llm_error"},
     failing_emits |-> {"emit_workflow_start", "emit_workflow_error"}]

InitLLM ==
    /\ InitService({1}, Registries)
    /\ eh = NoHandlerCall /\ qm = NoCall /\ svc = NoServiceCall

NextLLM == Step("t1", LLMEnv)

SpecLLM == InitLLM /\ [][NextLLM]_vars

(* ------------- reset_workflow, get_status, get_debug_info -------------- *)
\* positions of a thread inside one of the three calls
OpPCs == {"reset_lock", "reset_cs", "gs_lock", "gs_cs", "gd"}

\* a caller (a request handler of app.py) enters one of the three calls
CallOp(t, env) ==
    /\ pc[t] \in {"idle", "returned"}
    /\ calls[t] < env.maxops
    /\ SumSeq([i \in 1..Len(ThreadSeq) |-> calls[ThreadSeq[i]]]) < env.maxcalls
    /\ \E op \in env.ops :
         /\ Goto(t, CASE op.name = "reset_workflow" -> "reset_lock"
                      [] op.name = "get_status" -> "gs_lock"
                      [] op.name = "get_debug_info" -> "gd")
         /\ snap' = [snap EXCEPT ![t] = [kind |-> "called", op |-> op]]
    /\ SetLoc(t, InitialLocals)
    /\ calls' = [calls EXCEPT ![t] = @ + 1]
    /\ UNCHANGED <<max_iterations, status, debug_data, applied, lock, events,
                   deviations, qm, old_lists, llms, eh, svc>>

\* mutant: the debug lists are left as they are
ResetWorkflow_KeepsDebug(t) ==
    /\ pc[t] = "reset_cs"
    /\ lock' = NoThread
    /\ status' = InitialStatus(max_iterations)
    /\ snap' = [snap EXCEPT ![t] = [kind |-> "reset", before |-> status]]
    /\ Goto(t, "returned")
    /\ UNCHANGED <<max_iterations, debug_data, applied, events, loc, calls, deviations,
                   qm, old_lists, llms, eh, svc>>

\* reset_workflow: workflow_manager.py:289-303; every component gets a new list
ResetWorkflow(t) ==
    /\ pc[t] = "reset_cs"
    /\ lock' = NoThread
    /\ status' = InitialStatus(max_iterations)
    /\ debug_data' = [c \in Components |-> <<>>]
    /\ old_lists' = [c \in Components |-> Append(old_lists[c], debug_data[c])]
    /\ snap' = [snap EXCEPT ![t] = [kind |-> "reset", before |-> status]]
    /\ Goto(t, "returned")
    /\ UNCHANGED <<max_iterations, applied, events, loc, calls, deviations, qm, llms, eh, svc>>

\* what a reader sees now in the plan dicts of a plans dict it holds
SeenPlans(plans) == Observe(plans)

\* get_status: workflow_manager.py:280-281; dict.copy() copies the top level,
\* the plans dict and its plan dicts stay shared with the manager
GetStatus(t) ==
    /\ pc[t] = "gs_cs"
    /\ lock' = NoThread
    /\ snap' = [snap EXCEPT ![t] = [kind |-> "status", copy |-> status,
                                    seen |-> SeenPlans(status.plans)]]
    /\ Goto(t, "returned")
    /\ UNCHANGED <<max_iterations, status, debug_data, applied, events, loc, calls,
                   deviations, qm, old_lists, llms, eh, svc>>

\* the list object self.debug_data[component] is now, by its identity
CurrentList(component) == Len(old_lists[component])
\* the entries of the list object <<component, id>> as they are now
Entries(component, id) ==
    IF id = CurrentList(component) THEN debug_data[component]
    ELSE old_lists[component][id + 1]
\* what a reader holding that list object sees now: its entries, and in
\* the entries of the plan-storing components the plan dicts
SeenList(component, id) ==
    LET entries == Entries(component, id)
    IN [i \in 1..Len(entries) |->
          IF component = "cross_analysis_agent" THEN entries[i].data
          ELSE SeenPlans(entries[i].data)]

\* get_debug_info: workflow_manager.py:285; the list itself is returned,
\* no lock is taken
GetDebugInfo(t) ==
    /\ pc[t] = "gd"
    /\ LET component == snap[t].op.component
       IN snap' = [snap EXCEPT ![t] =
              [kind |-> "debug", component |-> component,
               list |-> CurrentList(component),
               seen |-> SeenList(component, CurrentList(component))]]
    /\ Goto(t, "returned")
    /\ UNCHANGED <<max_iterations, status, debug_data, applied, lock, events, loc,
                   calls, deviations, qm, old_lists, llms, eh, svc>>

Operations ==
    {[name |-> "reset_workflow", component |-> "none"],
     [name |-> "get_status", component |-> "none"],
     [name |-> "get_debug_info", component |-> "teaching_plan_agent"]}

OpStep(t, env) ==
    \/ CallOp(t, env)
    \/ Acquire(t)
    \/ ResetWorkflow(t)
    \/ GetStatus(t)
    \/ GetDebugInfo(t)

\* runs of one thread and calls of a second thread (MaxCalls + 1 calls in all,
\* at most MaxOps of them by the second thread), over a narrow range of
\* backend behaviour and a single configured iteration
OpsEnv ==
    [rounds |-> JobRounds, maxcalls |-> MaxCalls + 1, maxops |-> MaxOps,
     ops |-> Operations, gen |-> {"ok", "llm_error"},
     an |-> {NominalOutcome}, imp |-> {"ok"},
     failing_emits |-> {"emit_workflow_start"}]

NextOps == Step("t1", OpsEnv) \/ OpStep("t2", OpsEnv)

SpecOps == InitConc /\ [][NextOps]_vars

\* runs of both threads, the second of which also makes the other calls
\* (MaxCalls + 1 calls in all), over a narrow range of backend behaviour and
\* a single configured iteration
MixEnv ==
    [rounds |-> JobRounds, maxcalls |-> MaxCalls + 1, maxops |-> MaxOps,
     ops |-> Operations, gen |-> {"ok"}, an |-> {NominalOutcome}, imp |-> {"ok"},
     failing_emits |-> {"emit_workflow_start"}]

NextMix == Step("t1", MixEnv) \/ Step("t2", MixEnv) \/ OpStep("t2", MixEnv)

SpecMix == InitConc /\ [][NextMix]_vars

(* QualityMetrics.detect_convergence called on its own: the history is any   *)
(* list of up to MaxHistory scores among 0.5, 0.505, 0.51, 0.515, 0.6 and   *)
(* 0.75, the threshold the default 0.01 or 0.1                              *)
HistoryValues == {3000, 3030, 3060, 3090, 3600, 4500}
Histories == UNION {[1..n -> HistoryValues] : n \in 0..MaxHistory}
Thresholds == {convergence_threshold, 10 * convergence_threshold}

InitQM ==
    /\ InitManager({1})
    /\ qm \in [quality_history : Histories, threshold : Thresholds,
               returned : {FALSE}, ret : {FALSE}]

DetectConvergence ==
    /\ ~qm.returned
    /\ qm' = [qm EXCEPT !.returned = TRUE,
                        !.ret = detect_convergence(qm.quality_history, qm.threshold)]
    /\ UNCHANGED <<max_iterations, status, debug_data, applied, lock, events, pc, loc,
                   calls, deviations, snap, old_lists, llms, eh, svc>>

NextQM == DetectConvergence

SpecQM == InitQM /\ [][NextQM]_vars

(* QualityMetrics.calculate_quality_score called on its own.  The report of *)
(* the first analyst is an error report, a successful report without the   *)
(* quality_metrics key, or a successful report holding any subset of the   *)
(* five metrics with any values of the grid; the two other reports are     *)
(* taken from a short list.                                                *)
MetricStep == 250
MetricValues == {k * MetricStep : k \in 0..MetricLevels}
MetricMaps ==
    UNION {[D -> MetricValues] : D \in SUBSET {WeightKeys[i] : i \in 1..Len(WeightKeys)}}
SuccessReport(analyst, metrics) ==
    [status |-> "success", analyst |-> analyst, quality_metrics |-> metrics]
BareReport(analyst) == [status |-> "success", analyst |-> analyst]
AnyReports(analyst) ==
    {ErrorReport(analyst, "raise"), BareReport(analyst)}
        \cup {SuccessReport(analyst, m) : m \in MetricMaps}
FewReports(analyst) ==
    {ErrorReport(analyst, "raise"),
     BareReport(analyst),
     _parse_analysis_result(NominalOutcome.answer, analyst),
     SuccessReport(analyst, [practicality |-> MetricStep, relevance |-> 4 * MetricStep])}
ReportMaps ==
    {[qwen |-> a, deepseek |-> b, personal_chatgpt |-> c] :
        a \in AnyReports("qwen"), b \in FewReports("deepseek"),
        c \in FewReports("personal_chatgpt")}

InitScore ==
    /\ InitManager({1})
    /\ qm \in [analysis_reports : ReportMaps, returned : {FALSE}, ret : {0}]

\* quality_metrics.py:29-42
CalculateQualityScore ==
    /\ ~qm.returned
    /\ qm' = [qm EXCEPT !.returned = TRUE,
                        !.ret = calculate_quality_score(qm.analysis_reports)]
    /\ UNCHANGED <<max_iterations, status, debug_data, applied, lock, events, pc, loc,
                   calls, deviations, snap, old_lists, llms, eh, svc>>

NextScore == CalculateQualityScore

SpecScore == InitScore /\ [][NextScore]_vars

(* ---------------------------- ErrorHandler ----------------------------- *)
(* An exception class is modelled by what _should_retry reads of it: its   *)
(* __name__ and the text of str(type(error)), both as sequences of word    *)
(* pieces, so that `in` on strings is the search of a contiguous run of    *)
(* pieces.  `kind` is what the error is, whatever its class is called.     *)
ErrorClass(module, name, kind) == [module |-> module, name |-> name, kind |-> kind]
ErrorClasses ==
    {ErrorClass(<<>>, <<"Timeout", "Error">>, "timeout"),
     ErrorClass(<<>>, <<"Connection", "Refused", "Error">>, "connection"),
     ErrorClass(<<"requests.exceptions.">>, <<"Timeout">>, "timeout"),
     ErrorClass(<<"openai.">>, <<"RateLimit", "Error">>, "rate_limit"),
     ErrorClass(<<>>, <<"Value", "Error">>, "other")}

\* the call of the wrapped function returns
NoError == ErrorClass(<<>>, <<>>, "none")

\* str(type(error)): "<class 'module.Name'>"
TypeText(error) == <<"<class '">> \o error.module \o error.name \o <<"'>">>

\* Python's `a in b` on strings
Contains(b, a) ==
    \E i \in 0..(Len(b) - Len(a)) : SubSeq(b, i + 1, i + Len(a)) = a

\* error_handler.py:50-57
retryable_errors ==
    <<<<"Timeout", "Error">>,
      <<"Connection", "Error">>,
      <<"RateLimit", "Error">>,
      <<"requests.exceptions.", "Timeout">>,
      <<"requests.exceptions.", "Connection", "Error">>,
      <<"requests.exceptions.", "Request", "Exception">>>>

\* error_handler.py:48-61
_should_retry(error) ==
    \/ \E i \in 1..Len(retryable_errors) : error.name = retryable_errors[i]
    \/ \E i \in 1..Len(retryable_errors) : Contains(TypeText(error), retryable_errors[i])

RECURSIVE Pow2(_)
Pow2(k) == IF k = 0 THEN 1 ELSE 2 * Pow2(k - 1)

\* time.sleep arguments are kept in tenths of a second
Second == 10

\* error_handler.py:63-76: the first pass of the loop sleeps and returns; no
\* operation is executed.  <<result, sleeps>>
_retry_operation(max_retries) ==
    IF max_retries >= 1
    THEN [ret |-> [status |-> "retry_success", attempt |-> 1],
          sleeps |-> <<Second * Pow2(0)>>]
    ELSE [ret |-> [status |-> "retry_failed"], sleeps |-> <<>>]

\* error_handler.py:78-84
_handle_fatal_error(error) ==
    [status |-> "fatal_error", error_info |-> error,
     message |-> "Operation failed and cannot be retried"]

\* a direct call handle_agent_error(agent_name, error, context), the agent
\* configured with retry_attempts
HandlerCalls ==
    [kind : {"handle_agent_error"}, error : ErrorClasses,
     retry_attempts : 0..MaxRetries, returned : {FALSE}, ret : {NoneValue},
     sleeps : {<<>>}, calls : {0}]

\* error_handler.py:16-32
HandleAgentError ==
    /\ eh.kind = "handle_agent_error"
    /\ ~eh.returned
    /\ eh' = IF _should_retry(eh.error)
             THEN [eh EXCEPT !.returned = TRUE,
                             !.ret = _retry_operation(eh.retry_attempts).ret,
                             !.sleeps = _retry_operation(eh.retry_attempts).sleeps]
             ELSE [eh EXCEPT !.returned = TRUE,
                             !.ret = _handle_fatal_error(eh.error)]
    /\ UNCHANGED <<max_iterations, status, debug_data, applied, lock, events, pc, loc,
                   calls, deviations, qm, snap, old_lists, llms, svc>>

\* a call of a function wrapped by retry_on_error(max_retries, delay):
\* `raised` holds the exceptions of the failed calls of the function, in order
Delays == {Second, Second \div 2}
WrapperCalls ==
    [kind : {"retry_on_error"}, max_retries : 0..MaxRetries, delay : Delays,
     attempt : {0}, raised : {<<>>}, returned : {FALSE}, ret : {NoneValue},
     sleeps : {<<>>}, calls : {0}]

\* mutant: the wrapper waits after the last failed attempt too
WrapperAttempt_WaitsAfterLast ==
    /\ eh.kind = "retry_on_error"
    /\ ~eh.returned
    /\ eh.attempt < eh.max_retries
    /\ \E o \in {NoError} \cup ErrorClasses :
         eh' = IF o = NoError
               THEN [eh EXCEPT !.calls = @ + 1,
                               !.returned = TRUE,
                               !.ret = [status |-> "returned", call |-> eh.calls + 1]]
               ELSE [eh EXCEPT !.calls = @ + 1,
                               !.raised = Append(@, o),
                               !.sleeps = Append(@, eh.delay * Pow2(eh.attempt)),
                               !.attempt = @ + 1]
    /\ UNCHANGED <<max_iterations, status, debug_data, applied, lock, events, pc, loc,
                   calls, deviations, qm, snap, old_lists, llms, svc>>

\* one pass of the loop of wrapper, error_handler.py:110-120
WrapperAttempt ==
    /\ eh.kind = "retry_on_error"
    /\ ~eh.returned
    /\ eh.attempt < eh.max_retries
    /\ \E o \in {NoError} \cup ErrorClasses :
         eh' = IF o = NoError
               THEN [eh EXCEPT !.calls = @ + 1,
                               !.returned = TRUE,
                               !.ret = [status |-> "returned", call |-> eh.calls + 1]]
               ELSE [eh EXCEPT !.calls = @ + 1,
                               !.raised = Append(@, o),
                               !.sleeps = IF eh.attempt < eh.max_retries - 1
                                          THEN Append(@, eh.delay * Pow2(eh.attempt))
                                          ELSE @,
                               !.attempt = @ + 1]
    /\ UNCHANGED <<max_iterations, status, debug_data, applied, lock, events, pc, loc,
                   calls, deviations, qm, snap, old_lists, llms, svc>>

\* error_handler.py:122-126; `raise None` is a TypeError
WrapperRaise ==
    /\ eh.kind = "retry_on_error"
    /\ ~eh.returned
    /\ eh.attempt = eh.max_retries
    /\ eh' = [eh EXCEPT !.returned = TRUE,
                        !.ret = [status |-> "raised",
                                 error |-> IF eh.raised = <<>>
                                           THEN ErrorClass(<<>>, <<"Type", "Error">>, "other")
                                           ELSE eh.raised[Len(eh.raised)]]]
    /\ UNCHANGED <<max_iterations, status, debug_data, applied, lock, events, pc, loc,
                   calls, deviations, qm, snap, old_lists, llms, svc>>

(* handle_timeout(timeout_seconds): error_handler.py:131-156.  The process *)
(* has one SIGALRM handler and one alarm timer; an armed alarm may expire  *)
(* at any moment, and the signal is then served by the handler in place:   *)
(* timeout_handler raises TimeoutError in the wrapper's thread, the        *)
(* previous handler is the default action (the process is terminated) or   *)
(* a handler of the caller.                                                *)
PreviousHandlers == {"SIG_DFL", "caller_handler"}
TimeoutErrorClass == ErrorClass(<<>>, <<"Timeout", "Error">>, "timeout")
TimeoutCalls ==
    [kind : {"handle_timeout"}, old_handler : PreviousHandlers,
     handler : PreviousHandlers, alarm : {FALSE}, pos : {"set_up"},
     pending : {NoError}, stray : {"none"}, returned : {FALSE},
     ret : {NoneValue}]

\* error_handler.py:142-143
TimeoutSetUp ==
    /\ eh.kind = "handle_timeout"
    /\ eh.pos = "set_up"
    /\ eh.handler = eh.old_handler
    /\ eh' = [eh EXCEPT !.handler = "timeout_handler", !.alarm = TRUE,
                        !.pos = "call"]
    /\ UNCHANGED <<max_iterations, status, debug_data, applied, lock, events, pc, loc,
                   calls, deviations, qm, snap, old_lists, llms, svc>>

\* line 146: func returns, or raises an exception of its own
TimeoutCall ==
    /\ eh.kind = "handle_timeout"
    /\ eh.pos = "call"
    /\ \E o \in {NoError} \cup ErrorClasses :
         eh' = IF o = NoError
               THEN [eh EXCEPT !.pos = "disarm"]
               ELSE [eh EXCEPT !.pos = "finally", !.pending = o]
    /\ UNCHANGED <<max_iterations, status, debug_data, applied, lock, events, pc, loc,
                   calls, deviations, qm, snap, old_lists, llms, svc>>

\* line 147: signal.alarm(0)
TimeoutDisarm ==
    /\ eh.kind = "handle_timeout"
    /\ eh.pos = "disarm"
    /\ eh' = [eh EXCEPT !.alarm = FALSE, !.pos = "finally"]
    /\ UNCHANGED <<max_iterations, status, debug_data, applied, lock, events, pc, loc,
                   calls, deviations, qm, snap, old_lists, llms, svc>>

\* lines 148-153: the except clause re-raises, the finally block puts the
\* previous handler back, and the wrapper returns or raises
TimeoutFinally ==
    /\ eh.kind = "handle_timeout"
    /\ eh.pos = "finally"
    /\ eh' = [eh EXCEPT !.handler = eh.old_handler,
                        !.pos = "ended",
                        !.returned = TRUE,
                        !.ret = IF eh.pending = NoError
                                THEN [status |-> "returned"]
                                ELSE [status |-> "raised", error |-> eh.pending]]
    /\ UNCHANGED <<max_iterations, status, debug_data, applied, lock, events, pc, loc,
                   calls, deviations, qm, snap, old_lists, llms, svc>>

\* the alarm expires: SIGALRM is served by the handler in place (lines
\* 138-139 while the wrapper has its own handler installed)
AlarmExpires ==
    /\ eh.kind = "handle_timeout"
    /\ eh.alarm
    /\ eh' = IF eh.handler = "timeout_handler"
             THEN [eh EXCEPT !.alarm = FALSE, !.pos = "finally",
                             !.pending = TimeoutErrorClass]
             ELSE [eh EXCEPT !.alarm = FALSE,
                             !.stray = IF eh.handler = "SIG_DFL"
                                       THEN "process_terminated"
                                       ELSE "caller_handler_invoked"]
    /\ UNCHANGED <<max_iterations, status, debug_data, applied, lock, events, pc, loc,
                   calls, deviations, qm, snap, old_lists, llms, svc>>

InitEH ==
    /\ InitService({1}, {FullRegistry})
    /\ qm = NoCall
    /\ svc = NoServiceCall
    /\ eh \in HandlerCalls \cup WrapperCalls
                \cup {c \in TimeoutCalls : c.handler = c.old_handler}

NextEH ==
    \/ HandleAgentError
    \/ WrapperAttempt
    \/ WrapperRaise
    \/ TimeoutSetUp
    \/ TimeoutCall
    \/ TimeoutDisarm
    \/ TimeoutFinally
    \/ AlarmExpires

SpecEH == InitEH /\ [][NextEH]_vars

(* ======================= properties of the claims ====================== *)
\* the run of thread t has published an event of this name
Emitted(t, name) ==
    \E i \in 1..Len(events[t]) :
        events[t][i].name = name /\ events[t][i].run = loc[t].run

\* the call of thread t was accepted and has not returned yet
Executing(t) == pc[t] \notin {"idle", "rw_lock", "rw_cs", "returned"} \cup OpPCs

\* the call of thread t has returned and had been accepted
ReturnedAccepted(t) ==
    /\ pc[t] = "returned"
    /\ loc[t].ret.status \in {"success", "raised"}
       \/ (loc[t].ret.status = "error" /\ loc[t].ret.message # Rejection.message)

\* positions of run_workflow after the iteration loop and on the failure paths
AfterLoop == {"emit_final_status", "final", "upd_final_lock", "upd_final_cs",
              "emit_workflow_complete", "return_success", "except", "herr_lock",
              "herr_cs", "emit_workflow_error", "fin_lock", "fin_cs", "returned"}
\* positions of the improvement phase of an iteration, up to its completion event
Improving == {"emit_improving", "improve", "upd_improved_lock", "upd_improved_cs",
              "debug_improved", "adopt", "emit_iteration_complete"}
\* positions between the return of generate_plans and the gate's decision
BeforeGate == {"upd_plans_lock", "upd_plans_cs", "debug_plans", "gate"}
GateMessage == "Failed to generate initial plans from all models"

\* C1: at most one accepted run_workflow call is executing at any time
C1_OneRunAtATime == Cardinality({t \in Threads : Executing(t)}) <= 1

\* C2: once an accepted run_workflow call has returned, by whatever path,
\* status.is_running is false (no other call being made meanwhile)
C2_NotRunningAfterReturn ==
    \A t \in Threads : ReturnedAccepted(t) => status.is_running = FALSE

\* C2 witness: a run that left run_workflow by an exception has returned
C2_Witness == \E t \in Threads : pc[t] = "returned" /\ loc[t].ret.status = "raised"

\* C3: the step of a call that finds is_running true returns the rejection at
\* once and changes neither the status, nor the debug data, nor the events
C3_RejectionChangesNothing ==
    [][\A t \in Threads :
          (pc[t] = "rw_cs" /\ status.is_running /\ pc'[t] # pc[t])
          => /\ pc'[t] = "returned"
             /\ loc'[t].ret = Rejection
             /\ status' = status
             /\ status'.is_running
             /\ debug_data' = debug_data
             /\ applied' = applied
             /\ events' = events]_vars

\* C3 witness: a rejected call has returned while the flag is still set and
\* the accepted run is still executing
C3_Witness ==
    \E t, u \in Threads :
        /\ pc[t] = "returned" /\ loc[t].ret = Rejection
        /\ Executing(u) /\ status.is_running

\* C4: once the gate has decided, the run is on the abort path (never having
\* started an analysis, error set and an error result once it has returned)
\* exactly when fewer than 2 initial plans are successful; otherwise it has
\* entered the first iteration with the initial plans
C4_GateIffFewerThanTwo ==
    \A t \in Threads :
        (loc[t].initial_plans # EmptyMap /\ pc[t] \notin BeforeGate)
        => IF Cardinality(Successful(loc[t].initial_plans)) < 2
           THEN /\ loc[t].herr_from # "None"
                /\ pc[t] \in AfterLoop
                /\ loc[t].current_plans = EmptyMap
                /\ loc[t].iteration = 0
                /\ debug_data["cross_analysis_agent"] = <<>>
                /\ pc[t] = "returned"
                   => /\ status.error # "None"
                      /\ loc[t].ret.status \in {"error", "raised"}
                      /\ loc[t].ret.status = "error" => Emitted(t, "workflow_error")
           ELSE /\ loc[t].iteration >= 1
                /\ loc[t].current_plans # EmptyMap
                /\ loc[t].error_message # GateMessage

\* C4 witness: a run whose initial generation had exactly one success has
\* returned its error
C4_Witness ==
    \E t \in Threads :
        /\ pc[t] = "returned"
        /\ Cardinality(Successful(loc[t].initial_plans)) = 1
        /\ loc[t].ret.status = "error"
        /\ Emitted(t, "workflow_error")

\* positions between the return of improve_plans and line 173
BeforeAdopt == {"upd_improved_lock", "upd_improved_cs", "debug_improved", "adopt"}
\* positions of a run that is failing or has ended
Failing == {"except", "herr_lock", "herr_cs", "emit_workflow_error", "fin_lock",
            "fin_cs", "returned"}
\* positions of the finalization, up to the return statement
Finalizing == {"emit_final_status", "final", "upd_final_lock", "upd_final_cs",
               "emit_workflow_complete", "return_success"}
Last(h) == h[Len(h)]

\* C5 as claimed: once an improvement phase has returned fewer than 2
\* successful plans, the run is failing: it reaches no further analysis and
\* no finalization, and has its error set when it has returned
C5_GateEveryRound ==
    \A t \in Threads :
        (/\ loc[t].improved_plans # EmptyMap
         /\ Cardinality(Successful(loc[t].improved_plans)) < 2
         /\ pc[t] \notin BeforeAdopt)
        => /\ pc[t] \in Failing
           /\ loc[t].final_plan = NoneValue
           /\ pc[t] = "returned" => status.error # "None"

\* C5 amended: the gate acts on the initial generation only; after an
\* improvement phase, whatever the number of successful plans it returned,
\* the gate never fails the run: the gate's error is never recorded, and the
\* run leaves the normal path only through an exception
C5_GateOnlyInitial ==
    \A t \in Threads :
        loc[t].improved_plans # EmptyMap
        => /\ loc[t].herr_from # "gate"
           /\ loc[t].error_message # GateMessage
           /\ status.error # GateMessage
           /\ (pc[t] \in Failing /\ loc[t].ret.status # "success")
              => loc[t].exc # "None"

\* C5 witness: the analysis of the next iteration runs on an improvement
\* output that holds fewer than 2 successful plans
C5_Witness ==
    \E t \in Threads :
        /\ pc[t] = "analyze"
        /\ loc[t].improved_plans # EmptyMap
        /\ Cardinality(Successful(loc[t].improved_plans)) < 2
        /\ loc[t].current_plans = loc[t].improved_plans
        /\ loc[t].current_plans # loc[t].initial_plans

\* C6: a run executes no more analysis phases than the max_rounds of its request
C6_RoundsWithinRequest ==
    \A t \in Threads : Len(loc[t].quality_history) <= loc[t].max_rounds

\* C7: the first iteration whose score reaches the threshold emits
\* quality_threshold_met and ends the loop: every earlier score is below the
\* threshold, no improvement phase runs on a score that reached it, and after
\* the event the run is past the loop with as many analyses as iterations and
\* one improvement less
C7_ThresholdStop ==
    \A t \in Threads :
        /\ pc[t] \in Improving \cup {"emit_convergence"}
           => loc[t].quality_score < quality_threshold
        /\ \A i \in 1..(Len(loc[t].quality_history) - 1) :
               loc[t].quality_history[i] < quality_threshold
        /\ pc[t] = "emit_threshold_met" => loc[t].quality_score >= quality_threshold
        /\ (pc[t] \in Finalizing /\ loc[t].quality_score >= quality_threshold)
           => Emitted(t, "quality_threshold_met")
        /\ Emitted(t, "quality_threshold_met")
           => /\ pc[t] \in AfterLoop
              /\ Len(loc[t].quality_history) = loc[t].iteration
              /\ Last(loc[t].quality_history) >= quality_threshold
              /\ Len(debug_data["cross_analysis_agent"]) = loc[t].iteration
              /\ Len(debug_data["improvement_agent"]) = loc[t].iteration - 1

\* C7 witness: a run stopped by the threshold in its second iteration, one
\* iteration before the configured maximum, has returned
C7_Witness ==
    \E t \in Threads :
        /\ pc[t] = "returned"
        /\ Emitted(t, "quality_threshold_met")
        /\ loc[t].iteration = 2
        /\ max_iterations = 3
        /\ loc[t].ret.status = "success"

\* C8: below the threshold, a converged score history emits
\* convergence_detected and ends the loop without an improvement phase; no
\* improvement phase runs on a converged history, and a run emits at most
\* one of quality_threshold_met and convergence_detected
C8_ConvergenceStop ==
    \A t \in Threads :
        /\ pc[t] \in Improving
           => ~detect_convergence(loc[t].quality_history, convergence_threshold)
        /\ pc[t] = "emit_convergence"
           => /\ loc[t].quality_score < quality_threshold
              /\ detect_convergence(loc[t].quality_history, convergence_threshold)
        /\ (/\ pc[t] \in Finalizing
            /\ loc[t].quality_score < quality_threshold
            /\ detect_convergence(loc[t].quality_history, convergence_threshold))
           => Emitted(t, "convergence_detected")
        /\ Emitted(t, "convergence_detected")
           => /\ pc[t] \in AfterLoop
              /\ ~Emitted(t, "quality_threshold_met")
              /\ Last(loc[t].quality_history) < quality_threshold
              /\ detect_convergence(loc[t].quality_history, convergence_threshold)
              /\ Len(loc[t].quality_history) = loc[t].iteration
              /\ Len(debug_data["improvement_agent"]) = loc[t].iteration - 1

\* C8 witness: a run stopped by convergence has returned
C8_Witness ==
    \E t \in Threads :
        /\ pc[t] = "returned"
        /\ Emitted(t, "convergence_detected")
        /\ loc[t].ret.status = "success"

\* C9 as claimed: a run that reaches finalization by exhausting its
\* iterations has run one improvement phase less than analysis phases
C9_NoImprovementInLastRound ==
    \A t \in Threads :
        (/\ pc[t] = "final"
         /\ ~Emitted(t, "quality_threshold_met")
         /\ ~Emitted(t, "convergence_detected"))
        => Len(debug_data["improvement_agent"])
             = Len(debug_data["cross_analysis_agent"]) - 1

\* C9 amended: a run that reaches finalization with neither stop event has
\* run max_iterations analysis phases and as many improvement phases, and
\* offers the output of the last improvement phase to finalization
C9_LastRoundImproves ==
    \A t \in Threads :
        (/\ pc[t] \in {"emit_final_status", "final"}
         /\ ~Emitted(t, "quality_threshold_met")
         /\ ~Emitted(t, "convergence_detected"))
        => /\ Len(loc[t].quality_history) = max_iterations
           /\ Len(debug_data["cross_analysis_agent"]) = max_iterations
           /\ Len(debug_data["improvement_agent"]) = max_iterations
           /\ loc[t].iteration = max_iterations + 1
           /\ loc[t].current_plans = loc[t].improved_plans

\* C9 witness: finalization is about to select among plans revised in the
\* last iteration, which no analysis has seen
C9_Witness ==
    \E t \in Threads :
        /\ pc[t] = "final"
        /\ ~Emitted(t, "quality_threshold_met")
        /\ ~Emitted(t, "convergence_detected")
        /\ \E m \in BackendSet :
              /\ loc[t].current_plans[m].status = "success"
              /\ loc[t].current_plans[m].born = max_iterations

\* the backend the claim selects: successful, with the highest score the last
\* analyses give its plan, the earliest in registry order among equals
Position(m) == CHOOSE i \in 1..Len(Backends) : Backends[i] = m
ClaimedChoice(plans, analysis_reports) ==
    CHOOSE m \in Successful(plans) :
        \A n \in Successful(plans) :
            LET sm == PlanScore(m, analysis_reports, Len(Backends))
                sn == PlanScore(n, analysis_reports, Len(Backends))
            IN sm > sn \/ (sm = sn /\ Position(m) <= Position(n))

\* C10: the final plan is the plan of the successful backend with the highest
\* score, the earliest in registry order among equals
C10_BestScoredPlanSelected ==
    \A t \in Threads :
        (loc[t].final_plan.status # "None" /\ Successful(loc[t].current_plans) # {})
        => /\ loc[t].final_plan.status = "success"
           /\ loc[t].final_plan.model =
                ClaimedChoice(loc[t].current_plans, loc[t].analysis_reports)

\* C11: finalization returns the failure artifact exactly when no current plan
\* is successful; with a successful current plan the final plan has status
\* success and carries the content of a successful current plan
C11_FailureOnlyWithoutPlans ==
    \A t \in Threads :
        loc[t].final_plan.status # "None"
        => IF Successful(loc[t].current_plans) = {}
           THEN loc[t].final_plan.status = "error"
           ELSE /\ loc[t].final_plan.status = "success"
                /\ \E m \in Successful(loc[t].current_plans) :
                      loc[t].final_plan.content = loc[t].current_plans[m]

\* positions of an accepted run before line 190 has written the final plan
BeforeFinalWrite ==
    {"emit_workflow_start", "upd_iter0_lock", "upd_iter0_cs", "emit_iteration_start0",
     "generate", "upd_plans_lock", "upd_plans_cs", "debug_plans", "gate", "loop_head",
     "upd_iter_lock", "upd_iter_cs", "emit_iteration_start", "emit_cross_analysis",
     "analyze", "upd_reports_lock", "upd_reports_cs", "debug_reports", "score",
     "upd_score_lock", "upd_score_cs", "emit_quality_update", "stop_check",
     "emit_threshold_met", "emit_convergence", "emit_improving", "improve",
     "upd_improved_lock", "upd_improved_cs", "debug_improved", "adopt",
     "emit_iteration_complete", "emit_final_status", "final", "upd_final_lock",
     "upd_final_cs"}
\* the run of thread t is failing or has failed
RunFailed(t) ==
    /\ pc[t] \in Failing
    /\ loc[t].run # InitialLocals.run
    /\ loc[t].ret.status # "success"
    /\ loc[t].ret # Rejection

\* C12: status.final_plan is None while a run is in its generation, analysis,
\* scoring and improvement phases and in a run that fails; it changes from
\* None only by the write that follows the loop, a run changes it at most
\* once, and only the acceptance of the next run sets it back to None
C12_FinalPlanWrittenOnce ==
    /\ [](\A t \in Threads :
            (pc[t] \in BeforeFinalWrite \/ RunFailed(t))
            => status.final_plan = NoneValue)
    /\ [][status'.final_plan # status.final_plan
          => \E t \in Threads :
                IF pc[t] = "rw_cs"
                THEN status'.final_plan = NoneValue
                ELSE /\ pc[t] = "upd_final_cs"
                     /\ status.final_plan = NoneValue
                     /\ status'.final_plan = loc[t].final_plan]_vars

\* C13: every score a run records (quality history, status.current_quality_score)
\* lies in [0,1], which is 0..6000 on the 1/6000 grid, and the score of an
\* analysis without a successful report is 0
C13_ScoresInUnitInterval ==
    /\ status.current_quality_score \in 0..6000
    /\ \A t \in Threads :
          /\ \A i \in 1..Len(loc[t].quality_history) :
                loc[t].quality_history[i] \in 0..6000
          /\ (/\ Len(loc[t].quality_history) = loc[t].iteration
              /\ loc[t].iteration >= 1
              /\ \A m \in BackendSet : loc[t].analysis_reports[m].status # "success")
             => Last(loc[t].quality_history) = 0

\* C14: a returned detect_convergence call is false on fewer than 3 points,
\* and on 3 or more points true exactly when each of the last two absolute
\* differences is strictly below the threshold, whatever the earlier points
C14_ConvergenceOnLastThree ==
    qm.returned
    => LET h == qm.quality_history
           n == Len(h)
       IN IF n < 3 THEN qm.ret = FALSE
          ELSE qm.ret = (/\ Abs(h[n] - h[n - 1]) < qm.threshold
                         /\ Abs(h[n - 1] - h[n - 2]) < qm.threshold)

\* C14 witness: a call on 4 points returned true although the first two
\* points differ by more than the threshold
C14_Witness ==
    /\ qm.returned /\ qm.ret
    /\ Len(qm.quality_history) = 4
    /\ Abs(qm.quality_history[2] - qm.quality_history[1]) > qm.threshold

\* C15 as claimed: with threshold 0.01 the call returns true on
\* [0.5, 0.51, 0.515] and false on [0.5, 0.6, 0.75]
C15_ExamplesAsClaimed ==
    (qm.returned /\ qm.threshold = convergence_threshold)
    => /\ qm.quality_history = <<3000, 3060, 3090>> => qm.ret = TRUE
       /\ qm.quality_history = <<3000, 3600, 4500>> => qm.ret = FALSE

\* C15 amended: with threshold 0.01 the call returns false on
\* [0.5, 0.51, 0.515], whose first difference is not below the threshold,
\* false on [0.5, 0.6, 0.75], and true on [0.5, 0.505, 0.51]
C15_Examples ==
    (qm.returned /\ qm.threshold = convergence_threshold)
    => /\ qm.quality_history = <<3000, 3060, 3090>> => qm.ret = FALSE
       /\ qm.quality_history = <<3000, 3600, 4500>> => qm.ret = FALSE
       /\ qm.quality_history = <<3000, 3030, 3060>> => qm.ret = TRUE

\* C15 witness: the call on [0.5, 0.51, 0.515] with threshold 0.01 has returned
C15_Witness ==
    /\ qm.returned
    /\ qm.threshold = convergence_threshold
    /\ qm.quality_history = <<3000, 3060, 3090>>

\* C16: the step of reset_workflow leaves the status equal to the initial
\* status and every debug list empty; the step of a run_workflow call that
\* finds this state accepts the call, which starts at iteration 0 with an
\* empty score history
C16_ResetRestoresInitialState ==
    [][\A t \in Threads :
          /\ (pc[t] = "reset_cs" /\ pc'[t] # pc[t])
             => /\ status' = InitialStatus(max_iterations)
                /\ \A c \in Components : debug_data'[c] = <<>>
          /\ (pc[t] = "rw_cs" /\ pc'[t] # pc[t] /\ status = InitialStatus(max_iterations))
             => /\ pc'[t] = "emit_workflow_start"
                /\ status'.is_running
                /\ status'.current_iteration = 0
                /\ loc'[t].iteration = 0
                /\ loc'[t].quality_history = <<>>]_vars

\* C16 witness: after a reset made when a first run had finished with its
\* final plan written, a second run is generating its plans, the debug lists
\* still empty
C16_Witness ==
    \E t, u \in Threads :
        /\ snap[u].kind = "reset"
        /\ ~snap[u].before.is_running
        /\ snap[u].before.final_plan # NoneValue
        /\ loc[t].run = <<t, 2>>
        /\ pc[t] = "generate"
        /\ status.is_running
        /\ \A c \in Components : debug_data[c] = <<>>

\* C17: a raising emit changes no outcome: no plan and no report is an error
\* entry because its event could not be published, and a returned run has
\* neither raised nor returned an error that is the emit's exception
C17_EmitFailureHarmless ==
    \A t \in Threads :
        /\ \A m \in DOMAIN loc[t].partial :
              loc[t].partial[m].status = "error"
              => loc[t].partial[m].message # "emit_error"
        /\ pc[t] = "returned"
           => /\ loc[t].ret.status # "raised"
              /\ loc[t].ret.status = "error" => loc[t].ret.message # "emit failed"

\* C18: what a reader sees through a status snapshot, and through an entry
\* list handed out by get_debug_info, stays what it was when it was returned
C18_SnapshotsIsolated ==
    \A t \in Threads :
        /\ snap[t].kind = "status"
           => SeenPlans(snap[t].copy.plans) = snap[t].seen
        /\ snap[t].kind = "debug"
           => SeenList(snap[t].component, snap[t].list) = snap[t].seen

\* positions whose step reads or writes self.status or a debug list
SharedAccess ==
    {"rw_cs", "upd_iter0_cs", "upd_plans_cs", "upd_iter_cs", "upd_reports_cs",
     "upd_score_cs", "upd_improved_cs", "upd_final_cs", "herr_cs", "fin_cs",
     "debug_plans", "debug_reports", "debug_improved", "return_success",
     "reset_cs", "gs_cs", "gd"}

\* C19: a thread about to read or write the status or a debug list holds the
\* lock, so no two threads are at such a position together
C19_AccessesUnderLock ==
    /\ \A t \in Threads : pc[t] \in SharedAccess => lock = t
    /\ \A t, u \in Threads :
          (pc[t] \in SharedAccess /\ pc[u] \in SharedAccess) => t = u

\* positions of a run inside generate_plans, analyze_plans or improve_plans
PhaseCalls == {"generate", "analyze", "improve"}
\* positions inside a `with self.lock:` block; none holds a backend call
CriticalSections == {CriticalSection(p) : p \in LockWaits}

\* C20: a run inside a backend phase call does not hold the lock: the lock is
\* free, or held by another thread that is inside a critical section of its
\* own (a get_status, a reset_workflow, the entry of a run_workflow call),
\* which the backend call has not kept waiting
C20_LockFreeDuringPhaseCalls ==
    \A t \in Threads :
        pc[t] \in PhaseCalls
        => \/ lock = NoThread
           \/ /\ lock \in Threads \ {t}
              /\ pc[lock] \in CriticalSections

\* C20 witness: while a run is inside generate_plans with one backend done,
\* a get_status call of another thread has taken the lock
C20_Witness ==
    \E t, u \in Threads :
        /\ pc[t] = "generate" /\ loc[t].idx = 2
        /\ pc[u] = "gs_cs" /\ lock = u

\* the local a phase call's return value is assigned to
Returned(l, phase) ==
    CASE phase = "generate" -> l.initial_plans
      [] phase = "analyze" -> l.analysis_reports
      [] phase = "improve" -> l.improved_plans
\* the position that follows the return of a phase call
AfterPhase(phase) ==
    CASE phase = "generate" -> "upd_plans_lock"
      [] phase = "analyze" -> "upd_reports_lock"
      [] phase = "improve" -> "upd_improved_lock"
FirstBackends(n) == {Backends[i] : i \in 1..n}

\* C21: every pass of the loop of generate_plans, analyze_plans and
\* improve_plans, whatever its backend call did, adds the entry of its backend
\* and leaves the earlier entries as they are; the entry of a failed call has
\* status error; the loop goes on to the next backend, and after the last one
\* the call returns normally with exactly one entry per backend
C21_FailuresAbsorbedAsData ==
    [][\A t \in Threads :
          (pc[t] \in PhaseCalls /\ loc'[t] # loc[t])
          => LET i == loc[t].idx
                 last == i = Len(Backends)
             IN /\ loc'[t].idx = i + 1
                /\ DOMAIN loc[t].partial = FirstBackends(i - 1)
                /\ DOMAIN loc'[t].partial = FirstBackends(i)
                /\ \A m \in DOMAIN loc[t].partial :
                      /\ loc'[t].partial[m] = loc[t].partial[m]
                      /\ pc[t] # "analyze"
                         => applied'[loc[t].partial[m]] = applied[loc[t].partial[m]]
                /\ loc'[t].outcome # "ok"
                   => loc'[t].partial[Backends[i]].status = "error"
                /\ loc'[t].exc = "None"
                /\ pc'[t] = IF last THEN AfterPhase(pc[t]) ELSE pc[t]
                /\ last => /\ Returned(loc'[t], pc[t]) = loc'[t].partial
                           /\ DOMAIN Returned(loc'[t], pc[t]) = BackendSet]_vars

\* C21 witness: generate_plans has returned one entry per backend, the first
\* backend's an error and the two after it successful, and later in the same
\* run improve_plans has returned with the entry of a failed revision
C21_Witness ==
    \E t \in Threads :
        /\ pc[t] = "upd_improved_lock"
        /\ loc[t].initial_plans["qwen"].status = "error"
        /\ loc[t].initial_plans["deepseek"].status = "success"
        /\ loc[t].initial_plans["personal_chatgpt"].status = "success"
        /\ DOMAIN loc[t].improved_plans = BackendSet
        /\ loc[t].improved_plans["deepseek"].status = "error"
        /\ loc[t].improved_plans["deepseek"].message = "llm_error"
        /\ loc[t].improved_plans["personal_chatgpt"].status = "success"

\* error_handler.py:88-94: the substitute declared for each backend
fallback_models(model_name) ==
    CASE model_name = "qwen" -> "gpt4o"
      [] model_name = "deepseek" -> "qwen"
      [] model_name = "gpt4o" -> "deepseek"
      [] OTHER -> "gpt4o"
\* llm_service.py:276: the name is in the registry and its LLM is not None
Available(name) == name \in DOMAIN llms /\ llms[name]

\* C22: a generation or revision call addressed to a backend that is absent
\* from the registry, and whose declared substitute is available, is served:
\* the entry generate_plans and improve_plans hold for that backend is a
\* successful plan, which a revision has not passed through unrevised
C22_AbsentBackendServedByFallback ==
    \A t \in Threads :
        pc[t] \in {"generate", "upd_plans_lock", "improve", "upd_improved_lock"}
        => \A m \in DOMAIN loc[t].partial :
              (~Available(m) /\ Available(fallback_models(m)))
              => /\ loc[t].partial[m].status = "success"
                 /\ applied[loc[t].partial[m]] # "false"

\* what the claims call a non-retryable error: neither a timeout, nor a
\* connection error, nor a rate limit
NonRetryable(error) == error.kind = "other"

\* C23: handle_agent_error on a non-retryable error returns fatal_error
\* without having slept, and a function wrapped by retry_on_error is not
\* called again after it has raised a non-retryable error
C23_NonRetryableNeverRetried ==
    /\ (eh.kind = "handle_agent_error" /\ eh.returned /\ NonRetryable(eh.error))
       => /\ eh.ret.status = "fatal_error"
          /\ eh.sleeps = <<>>
    /\ eh.kind = "retry_on_error"
       => \A i \in 1..Len(eh.raised) :
             NonRetryable(eh.raised[i]) => eh.calls = i

Min(a, b) == IF a <= b THEN a ELSE b

\* C24: a function wrapped by retry_on_error(max_retries = n, delay = d),
\* n >= 1, is called at most n times; the first successful call is the last
\* call and its result is returned; after the failed attempt k (from 0,
\* k < n - 1) the wrapper has waited d * 2^k, and it does not wait after the
\* attempt n - 1; after n failed attempts the exception of the last attempt
\* is raised; a call that has ended makes no further step
C24_BoundedRetryWithBackoff ==
    /\ []((eh.kind = "retry_on_error" /\ eh.max_retries >= 1)
          => LET n == eh.max_retries
                 failed == Len(eh.raised)
             IN /\ eh.calls <= n
                /\ failed <= n
                /\ eh.calls \in {failed, failed + 1}
                /\ eh.calls = failed + 1
                   => /\ eh.returned
                      /\ eh.ret = [status |-> "returned", call |-> eh.calls]
                /\ eh.sleeps = [k \in 1..Min(failed, n - 1) |-> eh.delay * Pow2(k - 1)]
                /\ (eh.returned /\ eh.calls = failed)
                   => /\ failed = n
                      /\ eh.ret = [status |-> "raised", error |-> eh.raised[n]]
                /\ (failed = n) => eh.ret.status # "returned")
    /\ [][(eh.kind = "retry_on_error" /\ eh.returned) => eh' = eh]_vars

\* C24 witness: with n = 3 the wrapper has raised the exception of the third
\* attempt, having waited d and 2d
C24_Witness ==
    /\ eh.kind = "retry_on_error"
    /\ eh.max_retries = 3
    /\ eh.returned
    /\ eh.ret.status = "raised"
    /\ eh.calls = 3
    /\ eh.ret.error = eh.raised[3]
    /\ eh.raised[3] # eh.raised[2]
    /\ eh.sleeps = <<eh.delay, 2 * eh.delay>>

\* the artifacts the completed phases of the run of thread t wrote are in
\* the status
ArtifactsKept(t) ==
    /\ loc[t].initial_plans # EmptyMap
       => status.plans = IF loc[t].improved_plans # EmptyMap
                         THEN loc[t].improved_plans ELSE loc[t].initial_plans
    /\ loc[t].analysis_reports # EmptyMap
       => status.analysis_reports = loc[t].analysis_reports
    /\ loc[t].quality_history # <<>>
       => status.current_quality_score = Last(loc[t].quality_history)

\* C25: once a run that failed, at the gate or by an exception, has ended,
\* status.error is set, status.is_running is false, the run has emitted
\* workflow_error, run_workflow has returned a result of status error with
\* the error's message, and what the completed phases wrote is in the status
C25_FailedRunOutcome ==
    \A t \in Threads :
        (pc[t] = "returned" /\ RunFailed(t))
        => /\ status.error # "None"
           /\ status.is_running = FALSE
           /\ Emitted(t, "workflow_error")
           /\ loc[t].ret.status = "error"
           /\ loc[t].ret.message = status.error
           /\ ArtifactsKept(t)

\* C26: status.current_iteration stays within 0..max_iterations and a step
\* that changes it either raises it by one, or sets it back to 0 and is the
\* acceptance of a run or a reset_workflow
C26_IterationMonotone ==
    /\ [](status.current_iteration \in 0..max_iterations)
    /\ [][status'.current_iteration # status.current_iteration
          => \/ status'.current_iteration = status.current_iteration + 1
             \/ /\ status'.current_iteration = 0
                /\ \E t \in Threads : /\ pc[t] \in {"rw_cs", "reset_cs"}
                                      /\ pc'[t] # pc[t]]_vars

\* positions of an iteration after line 129 has written the score
Scored == {"emit_quality_update", "stop_check", "emit_threshold_met",
           "emit_convergence"} \cup Improving

\* C27: the score history of a run holds one score per analysis phase
\* completed, in order: its length is the number of analysis results stored
\* (one less while the score of the result just stored is being computed),
\* it changes only by the append of line 128, never during generation or
\* improvement, and once the scoring step has written the status its length
\* is status.current_iteration and its last element status.current_quality_score
C27_OneScorePerAnalysis ==
    /\ [](\A t \in Threads :
            Executing(t)
            => /\ Len(loc[t].quality_history) =
                    Len(debug_data["cross_analysis_agent"])
                    - (IF pc[t] = "score" THEN 1 ELSE 0)
               /\ pc[t] \in Scored
                  => /\ Len(loc[t].quality_history) = status.current_iteration
                     /\ Last(loc[t].quality_history) = status.current_quality_score
                     /\ Last(loc[t].quality_history) =
                          calculate_quality_score(status.analysis_reports))
    /\ [][\A t \in Threads :
            loc'[t].quality_history # loc[t].quality_history
            => /\ pc[t] = "score"
               /\ loc'[t].quality_history =
                    Append(loc[t].quality_history,
                           calculate_quality_score(loc[t].analysis_reports))]_vars

\* C27 witness: right after the scoring step of the second iteration the
\* history holds two scores, the second differing from the first
C27_Witness ==
    \E t \in Threads :
        /\ pc[t] = "emit_quality_update"
        /\ loc[t].iteration = 2
        /\ Len(loc[t].quality_history) = 2
        /\ loc[t].quality_history[1] # loc[t].quality_history[2]
        /\ status.current_quality_score = loc[t].quality_history[2]

\* C28: after an improvement phase that returned fewer than 2 successful
\* plans, the plans the next analysis reads and the plans offered to
\* finalization are the plans from before that phase, which hold at least 2
\* successful plans, and not the output of the phase
C28_PreviousPlansKept ==
    \A t \in Threads :
        (/\ pc[t] \in {"analyze", "final"}
         /\ loc[t].improved_plans # EmptyMap
         /\ Cardinality(Successful(loc[t].improved_plans)) < 2)
        => /\ loc[t].current_plans # loc[t].improved_plans
           /\ Cardinality(Successful(loc[t].current_plans)) >= 2

\* the first backend, in the order of the plans dict, whose plan is successful
FirstSuccessful(plans) ==
    Backends[CHOOSE i \in 1..Len(Backends) :
                /\ plans[Backends[i]].status = "success"
                /\ \A j \in 1..(i - 1) : plans[Backends[j]].status # "success"]

\* C29: when no analysis report holds a plan_analysis entry and a current
\* plan is successful, the final plan has status success and is the first
\* successful plan in plan order
C29_FallsBackToFirstSuccessful ==
    \A t \in Threads :
        (/\ loc[t].final_plan.status # "None"
         /\ \A a \in DOMAIN loc[t].analysis_reports :
               "plan_analysis" \notin DOMAIN loc[t].analysis_reports[a]
         /\ Successful(loc[t].current_plans) # {})
        => /\ loc[t].final_plan.status = "success"
           /\ loc[t].final_plan.content =
                loc[t].current_plans[FirstSuccessful(loc[t].current_plans)]

\* the reference aggregate of the claim, on the grid of the model (a value
\* in 1/6000, each division rounded down): the value of one report
ReferenceValue(report) ==
    LET m == IF "quality_metrics" \in DOMAIN report THEN report.quality_metrics
             ELSE EmptyMap
        Term(k, w) == IF k \in DOMAIN m THEN w * m[k] ELSE 0
        Weight(k, w) == IF k \in DOMAIN m THEN w ELSE 0
        sum == Term("curriculum_alignment", 25) + Term("engagement_factor", 20)
               + Term("assessment_quality", 20) + Term("innovation_score", 15)
               + Term("practicality", 20)
        present == Weight("curriculum_alignment", 25) + Weight("engagement_factor", 20)
                   + Weight("assessment_quality", 20) + Weight("innovation_score", 15)
                   + Weight("practicality", 20)
    IN IF present = 0 THEN 0 ELSE (6 * sum) \div present
\* the mean of the values of the successful reports
ReferenceAggregate(reports) ==
    LET S == {a \in DOMAIN reports : reports[a].status = "success"}
        Value(a) == IF a \in S THEN ReferenceValue(reports[a]) ELSE 0
    IN IF S = {} THEN 0
       ELSE (Value("qwen") + Value("deepseek") + Value("personal_chatgpt"))
            \div Cardinality(S)

\* C30: a returned calculate_quality_score call has returned the reference
\* aggregate of its report map
C30_ScoreEqualsReference ==
    qm.returned => qm.ret = ReferenceAggregate(qm.analysis_reports)

\* C30 witness: the call has returned a positive score on a map of one failed
\* report, one successful report without metrics and one successful report
\* holding two of the five metrics, of different weights and values
C30_Witness ==
    /\ qm.returned
    /\ qm.ret > 0
    /\ qm.analysis_reports["qwen"] =
          SuccessReport("qwen", [curriculum_alignment |-> 2 * MetricStep,
                                 innovation_score |-> MetricStep])
    /\ qm.analysis_reports["deepseek"] = ErrorReport("deepseek", "raise")
    /\ qm.analysis_reports["personal_chatgpt"] = BareReport("personal_chatgpt")

\* C31: for a retryable error, handle_agent_error re-executes the failed
\* operation at most retry_attempts times, reports retry_success only when a
\* re-execution succeeded, and retry_failed when all attempts failed
\* (eh.calls counts the executions of the operation made by the handler)
C31_RetriesReExecute ==
    (eh.kind = "handle_agent_error" /\ eh.returned /\ _should_retry(eh.error)) =>
        /\ eh.calls <= eh.retry_attempts
        /\ eh.ret.status \in {"retry_success", "retry_failed"}
        /\ eh.ret.status = "retry_success" => eh.calls >= 1
        /\ eh.ret.status = "retry_failed" => eh.calls = eh.retry_attempts

(* ------------------ LangChainLLMService.get_agent_llm ------------------ *)
(* get_agent_llm called on its own, on every registry _initialize_llms can *)
(* build and every llm_fallback configuration of up to MaxSequence         *)
(* fallback names; 'gpt4o' is a name a configuration may hold that the     *)
(* registry never does (llm_service.py:173-193).                           *)
MaxSequence == 2
ConfiguredNames == RegistryNames \cup {"gpt4o"}
FallbackSequences == UNION {[1..n -> ConfiguredNames] : n \in 0..MaxSequence}
NoLLMAvailable == "No LLM available for agent initialization"

\* `return self.llms[name]`: the registry entry, an LLM (TRUE) or None (FALSE)
ReturnLLM(registry, name) ==
    [status |-> "returned", model |-> name, llm |-> registry[name]]

\* the for loop of llm_service.py:380-383 from position i on, and the raise
\* of line 386 that follows it
RECURSIVE TryFallbackSequence(_, _, _)
TryFallbackSequence(registry, fallback_sequence, i) ==
    IF i > Len(fallback_sequence)
    THEN [status |-> "raised", message |-> NoLLMAvailable]
    ELSE LET fallback_model == fallback_sequence[i]
         IN IF fallback_model \in DOMAIN registry /\ registry[fallback_model]
            THEN ReturnLLM(registry, fallback_model)
            ELSE TryFallbackSequence(registry, fallback_sequence, i + 1)

\* mutant: a registered primary model is returned whether it is None or not
ResolveAgentLLM_RegisteredIsEnough(registry, primary_model, fallback_sequence) ==
    IF primary_model \in DOMAIN registry
    THEN ReturnLLM(registry, primary_model)
    ELSE TryFallbackSequence(registry, fallback_sequence, 1)

\* llm_service.py:366-390 for a configuration holding these two values
ResolveAgentLLM(registry, primary_model, fallback_sequence) ==
    IF primary_model \in DOMAIN registry /\ registry[primary_model]
    THEN ReturnLLM(registry, primary_model)
    ELSE TryFallbackSequence(registry, fallback_sequence, 1)

AgentLLMCalls ==
    [kind : {"get_agent_llm"}, primary : ConfiguredNames,
     fallback_sequence : FallbackSequences, returned : {FALSE},
     ret : {NoneValue}]

InitAgentLLM ==
    /\ InitService({1}, [RegistryNames -> BOOLEAN])
    /\ eh = NoHandlerCall
    /\ qm = NoCall
    /\ svc \in AgentLLMCalls

GetAgentLLM ==
    /\ svc.kind = "get_agent_llm"
    /\ ~svc.returned
    /\ svc' = [svc EXCEPT !.returned = TRUE,
                          !.ret = ResolveAgentLLM(llms, svc.primary,
                                                  svc.fallback_sequence)]
    /\ UNCHANGED <<max_iterations, status, debug_data, applied, lock, events, pc, loc,
                   calls, deviations, qm, snap, old_lists, llms, eh>>

NextAgentLLM == GetAgentLLM

SpecAgentLLM == InitAgentLLM /\ [][NextAgentLLM]_vars

\* the name is registered and its LLM is not None
Usable(name) == name \in DOMAIN llms /\ llms[name]
\* the primary model followed by the fallback sequence
ResolutionOrder == <<svc.primary>> \o svc.fallback_sequence

\* C32: get_agent_llm returns the first usable model in the order primary,
\* then fallback sequence; it raises only when none of them is usable, and
\* what it returns is never None
C32_ResolvesByAvailability ==
    svc.returned =>
        /\ svc.ret.status \in {"returned", "raised"}
        /\ svc.ret.status = "raised" <=>
               \A i \in 1..Len(ResolutionOrder) : ~Usable(ResolutionOrder[i])
        /\ svc.ret.status = "returned" =>
               /\ svc.ret.llm = TRUE
               /\ \E i \in 1..Len(ResolutionOrder) :
                    /\ svc.ret.model = ResolutionOrder[i]
                    /\ Usable(ResolutionOrder[i])
                    /\ \A j \in 1..(i - 1) : ~Usable(ResolutionOrder[j])

\* C32 witness: the primary model is None, the first name of the sequence is
\* not registered, and the second one is returned
C32_Witness ==
    /\ svc.returned
    /\ svc.primary \in DOMAIN llms /\ ~llms[svc.primary]
    /\ Len(svc.fallback_sequence) = 2
    /\ svc.fallback_sequence[1] \notin DOMAIN llms
    /\ svc.ret.status = "returned"
    /\ svc.ret.model = svc.fallback_sequence[2]

\* some successful report of an analyst other than model_name holds a
\* suggestion or a weakness
HasFeedback(model_name, analysis_reports) ==
    \E a \in BackendSet \ {model_name} :
        /\ analysis_reports[a].status = "success"
        /\ \/ analysis_reports[a].suggestions # <<>>
           \/ analysis_reports[a].weaknesses # <<>>

\* C33: in every pass of improve_plans a revision is requested for backend b
\* only if b's artifact is successful and other analysts' successful reports
\* hold feedback for it; in every other case b's artifact is passed through
\* unchanged with improvement_applied = false
C33_RevisionOnlyWithFeedback ==
    [][\A t \in Threads :
          (pc[t] = "improve" /\ loc'[t].idx = loc[t].idx + 1) =>
              LET b == Backends[loc[t].idx]
                  plans == loc[t].current_plans
                  entry == loc'[t].partial[b]
                  due == /\ plans[b].status = "success"
                         /\ HasFeedback(b, loc[t].analysis_reports)
                  requested ==
                      \/ loc'[t].outcome \in {"llm_error", NotAvailable}
                      \/ entry = SuccessPlan(loc[t].run, b, loc[t].iteration)
              IN /\ requested => due
                 /\ ~due => /\ entry = plans[b]
                            /\ applied'[entry] = "false"]_vars

\* positions from the computation of the score to the emit of quality_update
Scoring == {"score", "upd_score_lock", "upd_score_cs", "emit_quality_update"}
\* positions of the stop checks and of their events
StopChecks == {"stop_check", "emit_threshold_met", "emit_convergence"}
\* positions of the analysis phase of an iteration
Analysing == {"upd_iter_lock", "upd_iter_cs", "emit_iteration_start",
              "emit_cross_analysis", "analyze", "upd_reports_lock",
              "upd_reports_cs", "debug_reports"}
\* the run of thread t has published this event for this iteration
EmittedIn(t, name, iteration) ==
    \E i \in 1..Len(events[t]) :
        events[t][i] = [run |-> loc[t].run, name |-> name, iteration |-> iteration]

\* C34: the score of a round is computed, and quality_update emitted, when
\* every analyst has a result recorded in this round (the reports scored are
\* the ones collected since the phase started); the stop checks and the
\* improvement phase come after the round's quality_update; the analysis of
\* round n+1 starts when every backend has an entry of round n's improvement
\* phase, one created in round n or one passed through
C34_PhaseBarrier ==
    \A t \in Threads :
        /\ pc[t] \in Scoring =>
              /\ DOMAIN loc[t].analysis_reports = BackendSet
              /\ loc[t].analysis_reports = loc[t].partial
        /\ EmittedIn(t, "quality_update", loc[t].iteration) =>
              /\ DOMAIN loc[t].analysis_reports = BackendSet
              /\ Len(loc[t].quality_history) = loc[t].iteration
        /\ pc[t] \in StopChecks \cup Improving =>
              EmittedIn(t, "quality_update", loc[t].iteration)
        /\ (pc[t] \in Analysing /\ loc[t].iteration >= 2) =>
              /\ DOMAIN loc[t].current_plans = BackendSet
              /\ loc[t].current_plans = loc[t].improved_plans
              /\ \A b \in BackendSet :
                    \/ loc[t].current_plans[b].born = loc[t].iteration - 1
                    \/ applied[loc[t].current_plans[b]] = "false"

\* C34 witness: the second round's analysis is running on one plan revised in
\* round 1 and one passed through, an analyst of round 1 having failed
C34_Witness ==
    \E t \in Threads :
        /\ pc[t] = "analyze"
        /\ loc[t].iteration = 2
        /\ EmittedIn(t, "quality_update", 1)
        /\ \E b \in BackendSet : /\ loc[t].current_plans[b].status = "success"
                                 /\ loc[t].current_plans[b].born = 1
        /\ \E b \in BackendSet : /\ loc[t].current_plans[b].born = 0
                                 /\ applied[loc[t].current_plans[b]] = "false"

\* what the current run_workflow call of thread t has published, in order
RunEvents(t) ==
    SelectSeq(events[t], LAMBDA e : e.run = loc[t].run)
TerminalEvents == {"workflow_complete", "workflow_error"}
\* no emit made by run_workflow or _handle_workflow_error has raised in the
\* current call of thread t
PublicationHeld(t) == loc[t].exc # "emit failed" /\ loc[t].ret.status # "raised"
\* the call of thread t was rejected
RejectedCall(t) == pc[t] = "returned" /\ loc[t].ret = Rejection

\* C35: in an accepted run in which no emit of run_workflow raises (a raising
\* emit inside a phase is absorbed there), workflow_start is the first event,
\* a terminal event is the last event the run publishes, the run has
\* published exactly one terminal event when it returns, and never both; a
\* rejected call publishes nothing
C35_StartFirstOneTerminalLast ==
    \A t \in Threads :
        LET ev == RunEvents(t)
            terminals == {i \in 1..Len(ev) : ev[i].name \in TerminalEvents}
        IN /\ PublicationHeld(t) =>
                /\ ev # <<>> => ev[1].name = "workflow_start"
                /\ Cardinality(terminals) <= 1
                /\ \A i \in terminals : i = Len(ev)
                /\ ReturnedAccepted(t) => Cardinality(terminals) = 1
           /\ RejectedCall(t) => ev = <<>>

\* C35 witness: a run has returned with workflow_start as its first event and
\* workflow_complete as its last, and the call made meanwhile was rejected
C35_Witness ==
    \E t, u \in Threads :
        /\ ReturnedAccepted(t) /\ PublicationHeld(t)
        /\ RunEvents(t)[1].name = "workflow_start"
        /\ RunEvents(t)[Len(RunEvents(t))].name = "workflow_complete"
        /\ RejectedCall(u)
        /\ calls[u] = 1

\* C36: run_workflow returns status 'success', and publishes
\* workflow_complete, only when the final plan it reports has status success;
\* in every other case the caller receives status 'error' and a message
\* (runs that leave by the exception of a failing workflow_error emit are
\* left aside here)
C36_SuccessOnlyWithFinalPlan ==
    \A t \in Threads :
        /\ Emitted(t, "workflow_complete") => loc[t].final_plan.status = "success"
        /\ (pc[t] = "returned" /\ loc[t].ret.status # "raised") =>
              IF loc[t].ret.status = "success"
              THEN loc[t].ret.final_plan.status = "success"
              ELSE /\ loc[t].ret.status = "error"
                   /\ "message" \in DOMAIN loc[t].ret

\* reset_workflow has been called while status.is_running was true
ResetDuringRun ==
    \E r \in Threads : snap[r].kind = "reset" /\ snap[r].before.is_running

\* C37: after a reset_workflow call made while a run is in progress, no second
\* run executes concurrently with that run (two calls are in run_workflow
\* together only while one of them is on its failure path, the window of C1)
C37_ResetAdmitsNoSecondRun ==
    ResetDuringRun =>
        \A a, b \in Threads :
            (a # b /\ Executing(a) /\ Executing(b)) => RunFailed(a) \/ RunFailed(b)

\* C38: once the call wrapped by handle_timeout has ended (returned, timed
\* out, or raised any other exception) the alarm armed for it is disarmed, so
\* no SIGALRM of that call is served by the previous handler; an expiry
\* during the call surfaces as a TimeoutError, which _should_retry takes as
\* retryable
C38_AlarmDisarmedAfterCall ==
    (eh.kind = "handle_timeout" /\ eh.pos = "ended") =>
        /\ ~eh.alarm
        /\ eh.stray = "none"
        /\ eh.handler = eh.old_handler
        /\ (eh.ret.status = "raised" /\ eh.ret.error.kind = "timeout")
              => _should_retry(eh.ret.error)

\* C39: whatever the interleaving of run_workflow, reset_workflow and
\* get_status calls, a status holding an error is not running, in the status
\* itself and in every copy get_status has returned; the error is set only
\* together with is_running = false, is_running is set to true only together
\* with error = None, and each of the two is the step of one critical section
C39_ErrorImpliesNotRunning ==
    /\ [](/\ status.error # "None" => ~status.is_running
          /\ \A t \in Threads :
                (snap[t].kind = "status" /\ snap[t].copy.error # "None")
                    => ~snap[t].copy.is_running)
    /\ [][/\ (status'.error # status.error /\ status'.error # "None")
               => /\ ~status'.is_running
                  /\ lock # NoThread /\ lock' = NoThread
          /\ (~status.is_running /\ status'.is_running)
               => /\ status'.error = "None"
                  /\ lock # NoThread /\ lock' = NoThread]_vars

\* C39 witness: a reset made during a run let a second run in; the first run
\* has failed and recorded its error while the second is still in progress
C39_Witness ==
    /\ ResetDuringRun
    /\ status.error # "None"
    /\ \E a, b \in Threads :
          /\ a # b
          /\ RunFailed(a)
          /\ Executing(b) /\ pc[b] \notin Failing

(* One run whose thread keeps being scheduled and whose backend calls and  *)
(* emits return (or raise): every step of run_workflow that can be taken   *)
(* is eventually taken.                                                    *)
SpecLive == Spec /\ WF_vars(Next)

\* positions of the iteration loop
InLoop == Analysing \cup Scoring \cup StopChecks \cup Improving
\* positions after the call of _generate_final_plan, up to the return
AfterFinal == {"upd_final_lock", "upd_final_cs", "emit_workflow_complete",
               "return_success"}
\* the analysis and improvement phases completed so far (one debug entry each)
AnalysesDone == Len(debug_data["cross_analysis_agent"])
ImprovementsDone == Len(debug_data["improvement_agent"])

\* C40: every accepted run eventually returns; the phase in progress in the
\* loop is the analysis or improvement phase of an iteration between 1 and
\* max_iterations, so that at most max_iterations of each are performed;
\* _generate_final_plan is called after the loop only, at most once in a run,
\* and a run that returns success has called it
C40_EveryRunReturns ==
    /\ \A t \in Threads : Executing(t) ~> (pc[t] = "returned")
    /\ [](\A t \in Threads :
            /\ AnalysesDone <= max_iterations
            /\ ImprovementsDone <= max_iterations
            /\ pc[t] \in InLoop =>
                  /\ loc[t].iteration \in 1..max_iterations
                  /\ AnalysesDone \in {loc[t].iteration - 1, loc[t].iteration}
                  /\ ImprovementsDone \in {loc[t].iteration - 1, loc[t].iteration}
                  /\ loc[t].final_plan = NoneValue
            /\ loc[t].final_plan # NoneValue => pc[t] \in AfterFinal \cup Failing
            /\ (pc[t] = "returned" /\ loc[t].ret.status = "success")
                  => loc[t].final_plan # NoneValue)
    /\ [][\A t \in Threads :
            (pc[t] = "final" /\ pc'[t] # "final") => loc[t].final_plan = NoneValue]_vars

\* C40 witness: a run has returned after max_iterations analysis phases, as
\* many improvement phases and its finalization
C40_Witness ==
    \E t \in Threads :
        /\ pc[t] = "returned"
        /\ loc[t].ret.status = "success"
        /\ max_iterations = MaxIterations
        /\ AnalysesDone = max_iterations
        /\ ImprovementsDone = max_iterations
        /\ loc[t].final_plan # NoneValue
====
